---- MODULE Spec2Model ----
(***************************************************************************)
(* The hub-and-spoke audio router (AudioRouter, cmd/discord-bridge/main.go):*)
(* the hub channel, the transmission table (manageTransmission), the       *)
(* routing decision (getRoutingDestinations, shouldRoute) and the          *)
(* dispatch of one frame (routeAudioMessage), the ingress workers with    *)
(* their 100 ms hub send, and the goroutines from Start to Stop.           *)
(*                                                                         *)
(* Time passes in whole seconds.  The code reads a frame's Timestamp only  *)
(* as now.Sub(Timestamp) > timeout, so a frame carries its Age, the seconds*)
(* since its Timestamp, which stops counting once it is past the timeout.  *)
(* A Go slice that the code only searches (SendToTypes, ReceiveFrom,       *)
(* ExcludeServices, ExcludeIDs, RouteToTypes) is a set; the audio payload  *)
(* of a frame is left out.                                                 *)
(***************************************************************************)
EXTENDS Integers, Sequences, FiniteSets, TLC

\* ------------------------------------------------------------------ bounds
\* At most MaxFrames frames are accepted by the hub channel.
MaxFrames == 3
\* The seconds since the cancellation are counted up to MaxWait.
MaxWait == 6

VARIABLES
    config,              \* AudioRouter.config (read-only after load)
    started,             \* Start has run
    services,            \* AudioRouter.services: id -> ServiceConnection
    audioHub,            \* AudioRouter.audioHub: the buffered channel
    activeTransmissions, \* AudioRouter.activeTransmissions: id -> AudioMessage
    stats,               \* AudioRouter.stats
    last,                \* the last routeAudioMessage call (history)
    transient,           \* an accepted preemption has the table over the cap (history)
    sendq,               \* the goroutines blocked in a send on the full hub
                         \* channel with the frame each offers, oldest first
    received,            \* per destination, the frames sent to it, in order (history)
    cancelled,           \* r.ctx has been cancelled
    sinceCancel,         \* whole seconds since the cancellation
    goroutines,          \* the position of every goroutine of the router
    stopReturned,        \* Stop has returned
    message,             \* the usrp.Message the caller of the packet library holds
    buffer,              \* the bytes of the datagram in hand
    parsed,              \* what the last decoding call returned
    verdict,             \* what the last Validate call returned
    uc,                  \* a USRP peer's UDPConnection.sequenceNum
    sent,                \* per USRP destination, the datagrams sendToUSRPService
                         \* wrote to it with the frame each was built from,
                         \* in order (history)
    conn,                \* the Stats and LastSeen of one ServiceConnection
    pc,                  \* the statement each goroutine that updates conn.Stats is at
    reg,                 \* the values each of these goroutines holds in its locals
    clock,               \* the number of time.Now() calls so far
    counted,             \* per goroutine, the packets and bytes it has counted
                         \* in conn.Stats (history)
    ctxDone,             \* the context given to UDPConnection.Start is cancelled
    startPc,             \* the statement UDPConnection.Start is at
    startErr,            \* the error UDPConnection.Start returned
    readErr,             \* the error of the ReadFromUDP of this iteration (history)
    handled,             \* the packet types whose handler was started, in order
                         \* (history)
    reads,               \* the number of ReceiveMessage calls of Start so far
    sc,                  \* a StreamingConverter: closed, the holder of its mutex,
                         \* its four pipes, its two FFmpeg processes and the
                         \* goroutines left in a Read of a pipe
    calls,               \* per caller of the converter, the method it is in and
                         \* the statement it is at
    ncalls,              \* the number of calls of the converter so far
    scHist,              \* what has happened to the converter (history)
    ab,                  \* an AudioBridge: running, the holder of its mutex and
                         \* the values buffered in its stopChan
    abWorkers,           \* the statement every conversion worker of the bridge
                         \* is at, by the Start that started it
    abCtl,               \* the goroutine that calls Start and Stop of the bridge
    bot,                 \* a discord Bot: running, the holder of its mutex,
                         \* voiceConn is set, the values buffered in its stopChan
                         \* and its session
    botCtx,              \* the context given to Bot.Start is cancelled
    botGo,               \* the statement every goroutine of the bot is at and
                         \* the Start it ran under
    botCtl               \* the goroutine that calls the methods of the bot

\* The variables of the router.
routerVars == <<config, started, services, audioHub, activeTransmissions, stats,
                last, transient, sendq, received, cancelled, sinceCancel,
                goroutines, stopReturned>>

\* The variables of the packet library (pkg/usrp).
codecVars == <<message, buffer, parsed, verdict>>

\* The variables of the USRP peers and of the USRP egress.
egressVars == <<uc, sent>>

\* The variables of the per-service statistics.
statVars == <<conn, pc, reg, clock, counted>>

\* The variables of the receive loop of the transport library.
startVars == <<ctxDone, startPc, startErr, readErr, handled, reads>>

\* The variables of the StreamingConverter.
convVars == <<sc, calls, ncalls, scHist>>

\* The variables of the AudioBridge.
bridgeVars == <<ab, abWorkers, abCtl>>

\* The variables of the discord Bot.
botVars == <<bot, botCtx, botGo, botCtl>>

\* The variables of the libraries beside the packet library.
libVars == <<startVars, convVars, bridgeVars, botVars>>

\* The variables the router's own steps leave alone.
usrpVars == <<codecVars, egressVars, statVars, libVars>>

vars == <<routerVars, usrpVars>>

\* The variables of the shutdown.
lifeVars == <<cancelled, sinceCancel, stopReturned>>

\* ------------------------------------------------------------------ types
ServiceTypeUSRP == "usrp"
ServiceTypeWhoTalkie == "whotalkie"
ServiceTypeDiscord == "discord"
ServiceTypeGeneric == "generic"

\* A ServiceInstance.  Listen / Remote stand for Network.ListenAddr != "" and
\* Network.RemoteAddr != ""; Network.Protocol is "udp" unless changed.
ServiceInstance(id, type, listen, remote, format, priority) ==
    [ID |-> id, Type |-> type, Enabled |-> TRUE,
     Listen |-> listen, Remote |-> remote, Protocol |-> "udp", Format |-> format,
     CanSend |-> TRUE, CanReceive |-> TRUE,
     SendToTypes |-> {}, ReceiveFrom |-> {}, ExcludeServices |-> {},
     Priority |-> priority]

\* An AudioMessage as the packet handlers build it: Timestamp is time.Now()
\* (Age 0); the routing fields RouteToTypes and ExcludeIDs are left at their
\* zero value.  Entry is the rank at which the frame entered the hub channel
\* (history; 0 while it has not entered).
AudioMessage(service, ptt) ==
    [SourceID |-> service.ID, SourceType |-> service.Type,
     Format |-> service.Format, Age |-> 0, PTTActive |-> ptt,
     Priority |-> service.Priority,
     RouteToTypes |-> {}, ExcludeIDs |-> {}, Entry |-> 0]

NoMessage ==
    [SourceID |-> "", SourceType |-> "", Format |-> "", Age |-> 0,
     PTTActive |-> FALSE, Priority |-> 0, RouteToTypes |-> {}, ExcludeIDs |-> {},
     Entry |-> 0]

\* A ServiceConnection: of its Stats only the Errors counter is kept.
ServiceConnection(service) == [Instance |-> service, Stats |-> [Errors |-> 0]]

\* The goroutines: the hub dispatcher, the housekeeping ticker, one worker
\* per service, and the handler of one accepted TCP connection.
Goroutines == {"hub", "housekeeping", "conn", "a", "b", "c"}

\* The empty map.
EmptyMap == [id \in {} |-> NoMessage]

\* ------------------------------------------------------- packet library
\* pkg/usrp.  A byte is a number in 0..255 and a []byte a sequence of bytes;
\* a uint32 and an int16 stand for themselves; a nil slice and an empty one
\* are both <<>>.
USRPMagic == <<85, 83, 82, 80>>
HeaderSize == 32
VoiceFrameSize == 160
MaxPayloadSize == 1024

USRP_TYPE_VOICE == 0
USRP_TYPE_DTMF == 1
USRP_TYPE_TEXT == 2
USRP_TYPE_PING == 3
USRP_TYPE_TLV == 4
USRP_TYPE_VOICE_ADPCM == 5
USRP_TYPE_VOICE_ULAW == 6

\* The nil error.
nil == "nil"

Min(a, b) == IF a < b THEN a ELSE b

\* binary.Write(buf, binary.BigEndian, v) for a uint32 v, and its reading.
BigEndianUint32(v) ==
    <<v \div 16777216, (v \div 65536) % 256, (v \div 256) % 256, v % 256>>

Uint32(b) == ((b[1] * 256 + b[2]) * 256 + b[3]) * 256 + b[4]

\* binary.Write(buf, binary.BigEndian, item.Length) for a uint16.
BigEndianUint16(v) == <<(v \div 256) % 256, v % 256>>

\* binary.Write(buf, binary.LittleEndian, sample) for an int16 sample: the
\* two's complement of the sample, low byte first.
LittleEndianInt16(sample) ==
    LET u == IF sample < 0 THEN sample + 65536 ELSE sample
    IN  <<u % 256, u \div 256>>

\* binary.Read(buf, binary.LittleEndian, &v.AudioData[i])
Int16(lo, hi) ==
    LET u == hi * 256 + lo IN IF u >= 32768 THEN u - 65536 ELSE u

\* The Header a composite literal leaves at its zero value.
ZeroHeader ==
    [Eye |-> <<0, 0, 0, 0>>, Seq |-> 0, Memory |-> 0, Keyup |-> 0,
     TalkGroup |-> 0, Type |-> 0, MpxID |-> 0, Reserved |-> 0]

\* NewHeader(packetType, seq)
NewHeader(packetType, seq) ==
    [ZeroHeader EXCEPT !.Eye = USRPMagic, !.Seq = seq, !.Type = packetType]

\* tlv.AddTLV(tag, value): the item appended takes the length of the value
\* as its Length, a uint16.
AddTLV(tlv, tag, value) ==
    [tlv EXCEPT !.TLVs = Append(@, [Tag |-> tag, Length |-> Len(value) % 65536,
                                    Value |-> value])]

\* h.SetPTT(on)
SetPTT(h, on) == [h EXCEPT !.Keyup = IF on THEN 1 ELSE 0]

\* h.IsPTT()
IsPTT(h) == h.Keyup # 0

\* A validateHeader that checks nothing.
validateHeaderAcceptsAll(h) == nil

\* validateHeader(h): only the magic string is compared.
validateHeader(h) ==
    IF h.Eye # USRPMagic THEN "invalid magic string" ELSE nil

\* The messages: Kind is the Go type of the value behind the Message
\* interface.
Kinds ==
    {"VoiceMessage", "DTMFMessage", "TextMessage", "PingMessage", "TLVMessage",
     "VoiceULawMessage", "VoiceADPCMMessage"}

\* m.GetType()
GetType(m) ==
    CASE m.Kind = "VoiceMessage" -> USRP_TYPE_VOICE
      [] m.Kind = "DTMFMessage" -> USRP_TYPE_DTMF
      [] m.Kind = "TextMessage" -> USRP_TYPE_TEXT
      [] m.Kind = "PingMessage" -> USRP_TYPE_PING
      [] m.Kind = "TLVMessage" -> USRP_TYPE_TLV
      [] m.Kind = "VoiceULawMessage" -> USRP_TYPE_VOICE_ULAW
      [] m.Kind = "VoiceADPCMMessage" -> USRP_TYPE_VOICE_ADPCM

\* The zero value of each message type, as in msg = &usrp.VoiceMessage{}.
ZeroMessage(kind) ==
    CASE kind = "VoiceMessage" ->
            [Kind |-> kind, Header |-> ZeroHeader,
             AudioData |-> [i \in 1..VoiceFrameSize |-> 0]]
      [] kind = "DTMFMessage" -> [Kind |-> kind, Header |-> ZeroHeader, Digit |-> 0]
      [] kind = "TextMessage" -> [Kind |-> kind, Header |-> ZeroHeader, Text |-> <<>>]
      [] kind = "PingMessage" -> [Kind |-> kind, Header |-> ZeroHeader]
      [] kind = "TLVMessage" -> [Kind |-> kind, Header |-> ZeroHeader, TLVs |-> <<>>]
      [] kind = "VoiceULawMessage" ->
            [Kind |-> kind, Header |-> ZeroHeader,
             AudioData |-> [i \in 1..VoiceFrameSize |-> 0]]
      [] kind = "VoiceADPCMMessage" ->
            [Kind |-> kind, Header |-> ZeroHeader, AudioData |-> <<>>]

\* No message.
NoPacket == [Kind |-> "none"]

\* The 32 header bytes every Marshal writes first: Eye as it is, then the
\* seven fields in network byte order.
MarshalHeader(h) ==
    h.Eye \o BigEndianUint32(h.Seq) \o BigEndianUint32(h.Memory)
          \o BigEndianUint32(h.Keyup) \o BigEndianUint32(h.TalkGroup)
          \o BigEndianUint32(h.Type) \o BigEndianUint32(h.MpxID)
          \o BigEndianUint32(h.Reserved)

\* The header every Unmarshal reads from the first 32 bytes of data.
UnmarshalHeader(data) ==
    [Eye |-> SubSeq(data, 1, 4),
     Seq |-> Uint32(SubSeq(data, 5, 8)),
     Memory |-> Uint32(SubSeq(data, 9, 12)),
     Keyup |-> Uint32(SubSeq(data, 13, 16)),
     TalkGroup |-> Uint32(SubSeq(data, 17, 20)),
     Type |-> Uint32(SubSeq(data, 21, 24)),
     MpxID |-> Uint32(SubSeq(data, 25, 28)),
     Reserved |-> Uint32(SubSeq(data, 29, 32))]

\* (*bytes.Reader).Read(b) with len(b) = n, pos bytes of data already read:
\* io.EOF when nothing is left to read, whatever n is.
ReaderRead(data, pos, n) ==
    IF pos >= Len(data)
    THEN [n |-> 0, err |-> "EOF"]
    ELSE [n |-> Min(n, Len(data) - pos), err |-> nil]

\* The samples of a VoiceMessage, each written little-endian.
MarshalSamples(samples) ==
    [k \in 1..(2 * Len(samples)) |->
        LittleEndianInt16(samples[(k + 1) \div 2])[2 - (k % 2)]]

\* The TLV items, each written as tag, big-endian length, value.
RECURSIVE MarshalTLVs(_)
MarshalTLVs(items) ==
    IF items = <<>> THEN <<>>
    ELSE <<Head(items).Tag>> \o BigEndianUint16(Head(items).Length)
         \o Head(items).Value \o MarshalTLVs(Tail(items))

\* m.Marshal(): the bytes returned (the error is always nil, a bytes.Buffer
\* takes every write).
Marshal(m) ==
    MarshalHeader(m.Header) \o
    CASE m.Kind = "VoiceMessage" -> MarshalSamples(m.AudioData)
      [] m.Kind = "DTMFMessage" -> <<m.Digit>>
      [] m.Kind = "TextMessage" -> m.Text
      [] m.Kind = "PingMessage" -> <<>>
      [] m.Kind = "TLVMessage" -> MarshalTLVs(m.TLVs)
      [] m.Kind = "VoiceULawMessage" -> m.AudioData
      [] m.Kind = "VoiceADPCMMessage" -> m.AudioData

\* A decoding call that returned err; what it left in its receiver is not
\* followed.
Failed(err) == [err |-> err, msg |-> NoPacket]

Decoded(m) == [err |-> nil, msg |-> m]

\* (*VoiceMessage).Unmarshal(data)
VoiceMessageUnmarshal(data) ==
    IF Len(data) < HeaderSize THEN Failed("data too short")
    ELSE LET h == UnmarshalHeader(data) IN
         IF validateHeader(h) # nil THEN Failed("invalid header")
         ELSE IF Len(data) < HeaderSize + VoiceFrameSize * 2
              THEN Failed("insufficient audio data")
              ELSE Decoded([Kind |-> "VoiceMessage", Header |-> h,
                            AudioData |->
                               [i \in 1..VoiceFrameSize |->
                                   Int16(data[HeaderSize + 2 * i - 1],
                                         data[HeaderSize + 2 * i])]])

\* (*DTMFMessage).Unmarshal(data): the digit is read and not looked at.
DTMFMessageUnmarshal(data) ==
    IF Len(data) < HeaderSize + 1 THEN Failed("data too short for DTMF message")
    ELSE LET h == UnmarshalHeader(data) IN
         IF validateHeader(h) # nil THEN Failed(validateHeader(h))
         ELSE Decoded([Kind |-> "DTMFMessage", Header |-> h,
                       Digit |-> data[HeaderSize + 1]])

\* (*TextMessage).Unmarshal(data)
TextMessageUnmarshal(data) ==
    IF Len(data) < HeaderSize THEN Failed("data too short for text message")
    ELSE LET h == UnmarshalHeader(data)
             remaining == Len(data) - HeaderSize
             read == ReaderRead(data, HeaderSize, remaining)
         IN
         IF validateHeader(h) # nil THEN Failed(validateHeader(h))
         ELSE IF remaining > 0 /\ read.err # nil THEN Failed("error reading text")
              ELSE Decoded([Kind |-> "TextMessage", Header |-> h,
                            Text |-> SubSeq(data, HeaderSize + 1, Len(data))])

\* (*PingMessage).Unmarshal(data)
PingMessageUnmarshal(data) ==
    IF Len(data) < HeaderSize THEN Failed("data too short for ping message")
    ELSE LET h == UnmarshalHeader(data) IN
         IF validateHeader(h) # nil THEN Failed(validateHeader(h))
         ELSE Decoded([Kind |-> "PingMessage", Header |-> h])

\* The body of the loop of (*TLVMessage).Unmarshal once three bytes or more
\* remain: the tag, the big-endian length, and the value, which must fit in
\* the bytes that remain and is read with buf.Read.
parseTLVItem(data, s) ==
    LET tag == data[s.pos + 1]
        length == data[s.pos + 2] * 256 + data[s.pos + 3]
        read == ReaderRead(data, s.pos + 3, length)
    IN
    IF Len(data) - (s.pos + 3) < length
    THEN [s EXCEPT !.done = TRUE,
                   !.err = "TLV item length exceeds remaining data"]
    ELSE IF read.err # nil
         THEN [s EXCEPT !.done = TRUE, !.err = "error reading TLV value"]
         ELSE [s EXCEPT !.pos = @ + 3 + length,
                        !.TLVs = Append(@, [Tag |-> tag, Length |-> length,
                                            Value |-> SubSeq(data, s.pos + 4,
                                                             s.pos + 3 + length)])]

\* A loop that takes one or two bytes left after the last item for an error.
parseTLVStrict(data, s) ==
    IF s.done THEN s
    ELSE IF Len(data) - s.pos = 0 THEN [s EXCEPT !.done = TRUE]
    ELSE IF Len(data) - s.pos < 3
         THEN [s EXCEPT !.done = TRUE, !.err = "incomplete TLV item header"]
         ELSE parseTLVItem(data, s)

\* One iteration of the loop of (*TLVMessage).Unmarshal on the state s: the
\* position of the reader, the items read, the error met, and whether the
\* loop has ended.  The loop ends when no byte remains, and breaks when
\* fewer than three remain.
parseTLV(data, s) ==
    IF s.done THEN s
    ELSE IF Len(data) - s.pos < 3 THEN [s EXCEPT !.done = TRUE]
    ELSE parseTLVItem(data, s)

\* The loop, eight iterations at a time.
RECURSIVE parseTLVs(_, _)
parseTLVs(data, s) ==
    IF s.done THEN s
    ELSE parseTLVs(data,
            parseTLV(data, parseTLV(data, parseTLV(data, parseTLV(data,
            parseTLV(data, parseTLV(data, parseTLV(data, parseTLV(data, s)))))))))

\* (*TLVMessage).Unmarshal(data)
TLVMessageUnmarshal(data) ==
    IF Len(data) < HeaderSize THEN Failed("data too short for TLV message")
    ELSE LET h == UnmarshalHeader(data)
             r == parseTLVs(data, [pos |-> HeaderSize, TLVs |-> <<>>, err |-> nil,
                                    done |-> FALSE])
         IN
         IF validateHeader(h) # nil THEN Failed(validateHeader(h))
         ELSE IF r.err # nil THEN Failed(r.err)
              ELSE Decoded([Kind |-> "TLVMessage", Header |-> h, TLVs |-> r.TLVs])

\* (*VoiceULawMessage).Unmarshal(data)
VoiceULawMessageUnmarshal(data) ==
    IF Len(data) < HeaderSize + VoiceFrameSize
    THEN Failed("data too short for u-law voice")
    ELSE LET h == UnmarshalHeader(data)
             read == ReaderRead(data, HeaderSize, VoiceFrameSize)
         IN
         IF validateHeader(h) # nil THEN Failed(validateHeader(h))
         ELSE IF read.err # nil THEN Failed("error reading audio data")
              ELSE Decoded([Kind |-> "VoiceULawMessage", Header |-> h,
                            AudioData |-> SubSeq(data, HeaderSize + 1,
                                                 HeaderSize + read.n)])

\* (*VoiceADPCMMessage).Unmarshal(data)
VoiceADPCMMessageUnmarshal(data) ==
    IF Len(data) < HeaderSize THEN Failed("data too short for ADPCM voice")
    ELSE LET h == UnmarshalHeader(data)
             remaining == Len(data) - HeaderSize
             read == ReaderRead(data, HeaderSize, remaining)
         IN
         IF validateHeader(h) # nil THEN Failed(validateHeader(h))
         ELSE IF remaining > 0 /\ read.err # nil
              THEN Failed("error reading ADPCM data")
              ELSE Decoded([Kind |-> "VoiceADPCMMessage", Header |-> h,
                            AudioData |-> SubSeq(data, HeaderSize + 1, Len(data))])

\* msg.Unmarshal(data) on a fresh message of the given Go type.
Unmarshal(kind, data) ==
    CASE kind = "VoiceMessage" -> VoiceMessageUnmarshal(data)
      [] kind = "DTMFMessage" -> DTMFMessageUnmarshal(data)
      [] kind = "TextMessage" -> TextMessageUnmarshal(data)
      [] kind = "PingMessage" -> PingMessageUnmarshal(data)
      [] kind = "TLVMessage" -> TLVMessageUnmarshal(data)
      [] kind = "VoiceULawMessage" -> VoiceULawMessageUnmarshal(data)
      [] kind = "VoiceADPCMMessage" -> VoiceADPCMMessageUnmarshal(data)

\* A digit test that takes the hexadecimal letters 'A'..'F'.
ValidDigitHex(digit) ==
    \/ digit >= 48 /\ digit <= 57
    \/ digit >= 65 /\ digit <= 70
    \/ digit = 42 \/ digit = 35

\* valid := (d.Digit >= '0' && d.Digit <= '9') ||
\*          (d.Digit >= 'A' && d.Digit <= 'D') || d.Digit == '*' || d.Digit == '#'
ValidDigit(digit) ==
    \/ digit >= 48 /\ digit <= 57
    \/ digit >= 65 /\ digit <= 68
    \/ digit = 42 \/ digit = 35

\* m.Validate(): the header type is compared with the type of the message,
\* and a DTMFMessage has its digit tested.
Validate(m) ==
    IF m.Header.Type # GetType(m) THEN "invalid packet type"
    ELSE IF m.Kind = "DTMFMessage" /\ ~ValidDigit(m.Digit) THEN "invalid DTMF digit"
         ELSE nil

\* The Go type (*UDPConnection).ReceiveMessage creates for a packet type.
MessageOfType(packetType) ==
    CASE packetType = USRP_TYPE_VOICE -> "VoiceMessage"
      [] packetType = USRP_TYPE_DTMF -> "DTMFMessage"
      [] packetType = USRP_TYPE_TEXT -> "TextMessage"
      [] packetType = USRP_TYPE_PING -> "PingMessage"
      [] packetType = USRP_TYPE_TLV -> "TLVMessage"
      [] packetType = USRP_TYPE_VOICE_ULAW -> "VoiceULawMessage"
      [] packetType = USRP_TYPE_VOICE_ADPCM -> "VoiceADPCMMessage"
      [] OTHER -> "none"

\* (*UDPConnection).ReceiveMessage() on a connection that reads the datagram
\* data into its pool buffer: the packet type at offset 20 chooses the
\* message, whose Unmarshal decodes the n bytes read.
ReceiveMessage(data) ==
    LET n == Min(Len(data), MaxPayloadSize + 64)
        packetType == Uint32(SubSeq(data, 21, 24))
    IN
    IF n < HeaderSize THEN Failed("packet too small")
    ELSE IF MessageOfType(packetType) = "none" THEN Failed("unknown packet type")
         ELSE LET r == Unmarshal(MessageOfType(packetType), SubSeq(data, 1, n))
              IN  IF r.err # nil THEN Failed("failed to unmarshal message") ELSE r

\* parseUSRPPacket(data) of the router: the magic is compared, and five of
\* the packet types have a case.
parseUSRPPacket(data) ==
    IF Len(data) < 32 THEN Failed("packet too short for USRP header")
    ELSE IF SubSeq(data, 1, 4) # USRPMagic THEN Failed("invalid USRP magic string")
         ELSE LET packetType == Uint32(SubSeq(data, 21, 24)) IN
              IF packetType \in {USRP_TYPE_VOICE, USRP_TYPE_DTMF, USRP_TYPE_VOICE_ULAW,
                                 USRP_TYPE_TLV, USRP_TYPE_PING}
              THEN Unmarshal(MessageOfType(packetType), data)
              ELSE Failed("unsupported USRP packet type")

\* Before any call of the packet library.
NotParsed == [by |-> "", err |-> nil, msg |-> NoPacket]

NoPacketInHand ==
    /\ message = NoPacket
    /\ buffer = <<>>
    /\ parsed = NotParsed
    /\ verdict = ""

\* ------------------------------------------------- transmission table
\* now.Sub(activeTx.Timestamp) > TxTimeoutSeconds * time.Second
Expired(activeTx) == activeTx.Age > config.TxTimeoutSeconds

\* CleanUpExpired that never deletes.
CleanUpNothing(table) == table

\* "Clean up expired transmissions": delete every expired entry.
CleanUpExpired(table) ==
    [id \in {i \in DOMAIN table : ~Expired(table[i])} |-> table[id]]

\* canPreempt with >= for >: an equal priority preempts too.
canPreemptOrEqual(msg, table) ==
    \E id \in DOMAIN table : msg.Priority >= table[id].Priority

\* The canPreempt loop: some existing entry has a strictly lower priority.
canPreempt(msg, table) ==
    \E id \in DOMAIN table : msg.Priority > table[id].Priority

\* TableFull with > for >=: the cap is checked one entry late.
TableFullOffByOne(table) == Cardinality(DOMAIN table) > config.MaxConcurrentTx

\* len(r.activeTransmissions) >= r.config.Audio.MaxConcurrentTx
TableFull(table) == Cardinality(DOMAIN table) >= config.MaxConcurrentTx

\* Rejected without the else branch: nothing is refused when the priority
\* rules are disabled.
RejectedOnlyWithRules(msg, table) ==
    /\ msg.PTTActive
    /\ TableFull(table)
    /\ config.EnablePriorityRules /\ ~canPreempt(msg, table)

\* Rejected without the PTT test: the cap is applied to PTT-off frames too.
RejectedAnyFrame(msg, table) ==
    /\ TableFull(table)
    /\ IF config.EnablePriorityRules THEN ~canPreempt(msg, table) ELSE TRUE

\* The two "transmission rejected" returns: table is the swept map.
Rejected(msg, table) ==
    /\ msg.PTTActive
    /\ TableFull(table)
    /\ IF config.EnablePriorityRules THEN ~canPreempt(msg, table) ELSE TRUE

\* StoreTransmission that evicts the entries of lower priority when the frame
\* is stored in a full table (preemption by eviction).
StoreEvicting(table, msg) ==
    LET keep == IF TableFull(table)
                THEN {id \in DOMAIN table : table[id].Priority >= msg.Priority}
                ELSE DOMAIN table
    IN [id \in keep \cup {msg.SourceID} |->
           IF id = msg.SourceID THEN msg ELSE table[id]]

\* r.activeTransmissions[msg.SourceID] = msg
StoreTransmission(table, msg) ==
    [id \in DOMAIN table \cup {msg.SourceID} |->
        IF id = msg.SourceID THEN msg ELSE table[id]]

\* delete(r.activeTransmissions, msg.SourceID)
DeleteTransmission(table, id) ==
    [i \in DOMAIN table \ {id} |-> table[i]]

\* A manageTransmission that stores the frame it refuses.
manageTransmissionStoresRefused(msg, table, activeStat) ==
    LET swept == CleanUpExpired(table) IN
    [err |-> Rejected(msg, swept),
     table |-> IF msg.PTTActive THEN StoreTransmission(swept, msg)
               ELSE DeleteTransmission(swept, msg.SourceID),
     active |-> activeStat]

\* manageTransmission(msg) on the map `table`: the error result, the map it
\* leaves, and the ActiveTransmissions statistic it leaves (a rejected frame
\* returns before the statistic is written).
manageTransmission(msg, table, activeStat) ==
    LET swept == CleanUpExpired(table) IN
    IF Rejected(msg, swept)
    THEN [err |-> TRUE, table |-> swept, active |-> activeStat]
    ELSE LET after == IF msg.PTTActive
                      THEN StoreTransmission(swept, msg)
                      ELSE DeleteTransmission(swept, msg.SourceID)
         IN [err |-> FALSE, table |-> after,
             active |-> Cardinality(DOMAIN after)]

\* ------------------------------------------------------------- routing
\* r.services[msg.SourceID] exists (sourceService != nil)
HasSource(msg) == msg.SourceID \in DOMAIN services

\* DestinationDisabled without the can_receive test.
DestinationNotEnabled(dest) == ~dest.Enabled

\* "Skip if destination is disabled"
DestinationDisabled(dest) == ~dest.Enabled \/ ~dest.CanReceive

\* IsSelf applied only when prevent_loops is set.
IsSelfWhenPreventingLoops(dest, msg) ==
    config.PreventLoops /\ dest.ID = msg.SourceID

\* "Skip self"
IsSelf(dest, msg) == dest.ID = msg.SourceID

\* "Check if explicitly excluded": the loop over msg.ExcludeIDs
ExplicitlyExcluded(dest, msg) == dest.ID \in msg.ExcludeIDs

\* ServiceExcluded reading the destination's exclude_services, not the source's.
ServiceExcludedByDestination(dest, msg) ==
    msg.SourceID \in dest.ExcludeServices

\* "Check service-level exclusions": the loop over
\* sourceService.Routing.ExcludeServices, run only when the source is known.
ServiceExcluded(dest, msg) ==
    /\ HasSource(msg)
    /\ dest.ID \in services[msg.SourceID].Instance.ExcludeServices

\* "Check source routing rules"
SourceRuleAllows(dest, msg) ==
    IF HasSource(msg) /\ services[msg.SourceID].Instance.SendToTypes # {}
    THEN dest.Type \in services[msg.SourceID].Instance.SendToTypes
    ELSE TRUE

\* "Check destination routing rules"
DestinationRuleAllows(dest, msg) ==
    IF dest.ReceiveFrom # {}
    THEN HasSource(msg) /\ services[msg.SourceID].Instance.Type \in dest.ReceiveFrom
    ELSE TRUE

\* "Check message-level routing"
MessageRuleAllows(dest, msg) ==
    IF msg.RouteToTypes # {} THEN dest.Type \in msg.RouteToTypes ELSE TRUE

\* shouldRoute(source, dest, msg): the switch on DefaultRouting returns before
\* the three rule checks for "all-to-all", "hub-only" and "none".
shouldRoute(dest, msg) ==
    CASE config.DefaultRouting = "all-to-all" -> TRUE
      [] config.DefaultRouting = "hub-only" -> FALSE
      [] config.DefaultRouting = "none" -> FALSE
      [] OTHER -> /\ SourceRuleAllows(dest, msg)
                  /\ DestinationRuleAllows(dest, msg)
                  /\ MessageRuleAllows(dest, msg)

\* getRoutingDestinations(msg): the ids of the connections it returns.
getRoutingDestinations(msg) ==
    {id \in DOMAIN services :
        LET dest == services[id].Instance IN
        /\ ~DestinationDisabled(dest)
        /\ ~IsSelf(dest, msg)
        /\ ~ExplicitlyExcluded(dest, msg)
        /\ ~ServiceExcluded(dest, msg)
        /\ shouldRoute(dest, msg)}

\* -------------------------------------------------------------- egress
\* r.converter != nil: NewAudioRouter builds it exactly when conversion is on.
HasConverter == config.EnableConversion

\* The results sendToService(msg, destConn) can return.  A send over the
\* network succeeds or fails; a destination without a remote address, and a
\* USRP destination offered a non-pcm frame without a converter, refuse; the
\* Discord placeholder always reports success.
sendToService(msg, dest) ==
    CASE dest.Type = ServiceTypeUSRP ->
            IF ~dest.Remote THEN {FALSE}
            ELSE IF msg.Format # "pcm" /\ ~HasConverter THEN {FALSE}
            ELSE {TRUE, FALSE}
      [] dest.Type = ServiceTypeWhoTalkie ->
            IF ~dest.Remote THEN {FALSE} ELSE {TRUE, FALSE}
      [] dest.Type = ServiceTypeDiscord -> {TRUE}
      [] dest.Type = ServiceTypeGeneric ->
            IF ~dest.Remote THEN {FALSE} ELSE {TRUE, FALSE}
      [] OTHER -> {FALSE}

\* A loop over the destinations that ends at the first send that fails: the
\* destinations after it are not offered the frame.
DeliveriesUntilFailure(msg, dests) ==
    {acc \in SUBSET dests :
        /\ \A id \in acc : TRUE \in sendToService(msg, services[id].Instance)
        /\ \/ acc = dests
           \/ \E id \in dests \ acc : FALSE \in sendToService(msg, services[id].Instance)}

\* The sets of destinations that can be the ones accepting msg.
Deliveries(msg, dests) ==
    {acc \in SUBSET dests :
        \A id \in dests : (id \in acc) \in sendToService(msg, services[id].Instance)}

\* net.DialTCP and the TCP Write of sendToGenericService carry no deadline:
\* the call returns when the peer answers or the system gives up.
DialBlocks(dest) ==
    dest.Type = ServiceTypeGeneric /\ dest.Protocol = "tcp" /\ dest.Remote

\* ---------------------------------------------------------- hub channel
\* The rank of the next frame to enter the hub channel.
EntryRank == stats.TotalMessages + Len(audioHub) + 1

\* A channel that hands out the newest frame first.
EnqueueFront(ch, msg) == <<[msg EXCEPT !.Entry = EntryRank]>> \o ch

\* r.audioHub <- audioMsg on a channel with room.
Enqueue(ch, msg) == Append(ch, [msg EXCEPT !.Entry = EntryRank])

\* msg := <-r.audioHub: the head leaves the channel, and the oldest blocked
\* sender, if any, puts its frame in the slot this frees.
ChanRecv ==
    IF sendq = <<>>
    THEN audioHub' = Tail(audioHub) /\ sendq' = sendq
    ELSE audioHub' = Enqueue(Tail(audioHub), Head(sendq).msg) /\ sendq' = Tail(sendq)

\* Goroutine g is in its loop or blocked in a call.
Alive(g) == goroutines[g] \in {"running", "egress"}

\* Goroutine g is blocked in the select that offers its frame to the hub.
Blocked(g) == \E i \in 1..Len(sendq) : sendq[i].g = g

\* ------------------------------------------------------------ dispatch
NoCall ==
    [called |-> FALSE, msg |-> NoMessage, err |-> FALSE, dests |-> {},
     accepted |-> {}]

\* CountDropped that does not count a frame refused by the table.
CountDroppedOnSendFailure(err, dests, routed) == dests # {} /\ routed = 0

\* r.stats.DroppedMessages++ : after "Transmission management error", and
\* when the destinations are not empty and routed = 0.
CountDropped(err, dests, routed) == err \/ (dests # {} /\ routed = 0)

\* r.stats.RoutedMessages++ : when routed > 0.
CountRouted(err, routed) == ~err /\ routed > 0

\* The frame reaches every destination whose send succeeded.
Deliver(accepted, msg) ==
    [d \in DOMAIN received |->
        IF d \in accepted
        THEN Append(received[d], <<msg.SourceID, msg.Entry>>)
        ELSE received[d]]

\* routeAudioMessage(msg) with `accepted` the destinations whose send succeeds.
routeAudioMessage(msg, accepted) ==
    LET r == manageTransmission(msg, activeTransmissions,
                                stats.ActiveTransmissions)
        dests == IF r.err THEN {} ELSE getRoutingDestinations(msg)
        routed == Cardinality(accepted)
        preempted == ~r.err /\ msg.PTTActive
                     /\ TableFull(CleanUpExpired(activeTransmissions))
    IN
    /\ accepted \in Deliveries(msg, dests)
    /\ activeTransmissions' = r.table
    /\ stats' = [stats EXCEPT
                   !.TotalMessages = @ + 1,
                   !.RoutedMessages = IF CountRouted(r.err, routed) THEN @ + 1 ELSE @,
                   !.DroppedMessages =
                       IF CountDropped(r.err, dests, routed) THEN @ + 1 ELSE @,
                   !.ActiveTransmissions = r.active]
    /\ last' = [called |-> TRUE, msg |-> msg, err |-> r.err, dests |-> dests,
                accepted |-> accepted]
    /\ transient' = /\ Cardinality(DOMAIN r.table) > config.MaxConcurrentTx
                    /\ (transient \/ preempted)
    /\ received' = Deliver(accepted, msg)

\* routeAudioMessage(msg) up to a send that blocks in DialTCP: the frame is
\* counted and admitted, its destinations are computed, the sends have not
\* returned.
routeAudioMessageBlocks(msg) ==
    LET r == manageTransmission(msg, activeTransmissions,
                                stats.ActiveTransmissions)
        dests == IF r.err THEN {} ELSE getRoutingDestinations(msg)
        preempted == msg.PTTActive
                     /\ TableFull(CleanUpExpired(activeTransmissions))
    IN
    /\ ~r.err
    /\ \E d \in dests : DialBlocks(services[d].Instance)
    /\ activeTransmissions' = r.table
    /\ stats' = [stats EXCEPT !.TotalMessages = @ + 1,
                              !.ActiveTransmissions = r.active]
    /\ last' = [called |-> TRUE, msg |-> msg, err |-> FALSE, dests |-> dests,
                accepted |-> {}]
    /\ transient' = /\ Cardinality(DOMAIN r.table) > config.MaxConcurrentTx
                    /\ (transient \/ preempted)
    /\ received' = received

\* A dispatcher that returns when routeAudioMessage met an error.
audioHubWorkerExitsOnError(failed) == IF failed THEN "returned" ELSE "running"

\* The dispatcher goes back to its select after routeAudioMessage, whatever
\* the call met.
audioHubWorkerLoop(failed) == "running"

\* The call met a per-frame error: the frame was refused, had no destination,
\* or a send to one of its destinations failed.
FrameError(call) == call.err \/ call.dests = {} \/ call.accepted # call.dests

\* The blocked send returns: the rest of routeAudioMessage.
egressReturns ==
    /\ goroutines["hub"] = "egress"
    /\ \E accepted \in Deliveries(last.msg, last.dests) :
          /\ stats' = [stats EXCEPT
                         !.RoutedMessages =
                             IF CountRouted(FALSE, Cardinality(accepted))
                             THEN @ + 1 ELSE @,
                         !.DroppedMessages =
                             IF CountDropped(FALSE, last.dests, Cardinality(accepted))
                             THEN @ + 1 ELSE @]
          /\ last' = [last EXCEPT !.accepted = accepted]
          /\ received' = Deliver(accepted, last.msg)
          /\ goroutines' =
                [goroutines EXCEPT !["hub"] = audioHubWorkerLoop(FrameError(last'))]
    /\ UNCHANGED <<usrpVars, config, started, services, audioHub, activeTransmissions,
                   transient, sendq, lifeVars>>

\* audioHubWorker: one iteration of the select, which returns on ctx.Done()
\* or receives a message from the channel and routes it.
audioHubWorker ==
    /\ goroutines["hub"] = "running"
    /\ \/ /\ cancelled
          /\ goroutines' = [goroutines EXCEPT !["hub"] = "returned"]
          /\ UNCHANGED <<audioHub, sendq, activeTransmissions, stats, last,
                         transient, received>>
       \/ /\ audioHub # <<>>
          /\ ChanRecv
          /\ \/ /\ \E accepted \in SUBSET DOMAIN services :
                      routeAudioMessage(Head(audioHub), accepted)
                /\ goroutines' =
                      [goroutines EXCEPT !["hub"] =
                          audioHubWorkerLoop(FrameError(last'))]
             \/ /\ routeAudioMessageBlocks(Head(audioHub))
                /\ goroutines' = [goroutines EXCEPT !["hub"] = "egress"]
    /\ UNCHANGED <<usrpVars, config, started, services, lifeVars>>

\* ------------------------------------------------------------- ingress
\* The select that offers audioMsg to the hub: the message is queued when the
\* channel has room; when the channel is full goroutine g blocks in the select
\* until the dispatcher frees a slot or the 100 ms timer fires.
SendToHub(g, audioMsg) ==
    IF Len(audioHub) < config.BufferSize
    THEN audioHub' = Enqueue(audioHub, audioMsg) /\ sendq' = sendq
    ELSE audioHub' = audioHub /\ sendq' = Append(sendq, [g |-> g, msg |-> audioMsg])

\* The select without its time.After case: the deadline never fires.
hubSendNeverTimesOut(g) == FALSE

\* case <-time.After(100 * time.Millisecond): the handler of goroutine g gives
\* its frame up and returns "audio hub full"; the worker logs the error and
\* goes on with its loop.
hubSendTimeout(g) ==
    /\ \E i \in 1..Len(sendq) :
          /\ sendq[i].g = g
          /\ sendq' = SubSeq(sendq, 1, i - 1) \o SubSeq(sendq, i + 1, Len(sendq))
    /\ UNCHANGED <<usrpVars, config, started, services, audioHub, activeTransmissions,
                   stats, last, transient, received, goroutines, lifeVars>>

\* handleUSRPPacket: a VOICE packet becomes a pcm AudioMessage carrying the
\* header's PTT flag; DTMF and the other packet types are skipped.
handleUSRPPacket(service, kind) ==
    IF kind = "other"
    THEN UNCHANGED <<audioHub, sendq>>
    ELSE SendToHub(service.ID, [AudioMessage(service, kind = "voice_on")
                                   EXCEPT !.Format = "pcm"])

\* handleWhoTalkiePacket: every packet is taken as an active transmission.
handleWhoTalkiePacket(service) ==
    SendToHub(service.ID, AudioMessage(service, TRUE))

\* handleGenericPacket, called by goroutine g: every packet is taken as an
\* active transmission.
handleGenericPacket(g, service) ==
    SendToHub(g, AudioMessage(service, TRUE))

\* The frames the hub channel has accepted or is being offered.
FramesAccepted == stats.TotalMessages + Len(audioHub) + Len(sendq)

\* usrpServiceWorker: one iteration of the loop, which returns on ctx.Done()
\* or reads a packet and handles it.
usrpServiceWorker(id) ==
    /\ id \in DOMAIN services
    /\ services[id].Instance.Type = ServiceTypeUSRP
    /\ goroutines[id] = "running" /\ ~Blocked(id)
    /\ \/ /\ cancelled
          /\ goroutines' = [goroutines EXCEPT ![id] = "returned"]
          /\ UNCHANGED <<audioHub, sendq>>
       \/ /\ ~cancelled
          /\ services[id].Instance.Listen
          /\ FramesAccepted < MaxFrames
          /\ \E kind \in {"voice_on", "voice_off"} :
                handleUSRPPacket(services[id].Instance, kind)
          /\ UNCHANGED goroutines
    /\ UNCHANGED <<usrpVars, config, started, services, activeTransmissions, stats,
                   last, transient, received, lifeVars>>

\* whoTalkieServiceWorker: one iteration of the loop.
whoTalkieServiceWorker(id) ==
    /\ id \in DOMAIN services
    /\ services[id].Instance.Type = ServiceTypeWhoTalkie
    /\ goroutines[id] = "running" /\ ~Blocked(id)
    /\ \/ /\ cancelled
          /\ goroutines' = [goroutines EXCEPT ![id] = "returned"]
          /\ UNCHANGED <<audioHub, sendq>>
       \/ /\ ~cancelled
          /\ services[id].Instance.Listen
          /\ FramesAccepted < MaxFrames
          /\ handleWhoTalkiePacket(services[id].Instance)
          /\ UNCHANGED goroutines
    /\ UNCHANGED <<usrpVars, config, started, services, activeTransmissions, stats,
                   last, transient, received, lifeVars>>

\* genericServiceWorker: one iteration of its loop.  The TCP loop accepts a
\* connection and starts its handler; the UDP loop reads a packet.
genericServiceWorker(id) ==
    /\ id \in DOMAIN services
    /\ services[id].Instance.Type = ServiceTypeGeneric
    /\ goroutines[id] = "running" /\ ~Blocked(id)
    /\ \/ /\ cancelled
          /\ goroutines' = [goroutines EXCEPT ![id] = "returned"]
          /\ UNCHANGED <<audioHub, sendq>>
       \/ /\ ~cancelled
          /\ services[id].Instance.Listen
          /\ IF services[id].Instance.Protocol = "tcp"
             THEN /\ goroutines["conn"] = "none"
                  /\ goroutines' = [goroutines EXCEPT !["conn"] = "running"]
                  /\ UNCHANGED <<audioHub, sendq>>
             ELSE /\ FramesAccepted < MaxFrames
                  /\ handleGenericPacket(id, services[id].Instance)
                  /\ UNCHANGED goroutines
    /\ UNCHANGED <<usrpVars, config, started, services, activeTransmissions, stats,
                   last, transient, received, lifeVars>>

\* handleGenericTCPConnection for a connection of service id: one iteration,
\* which returns on ctx.Done() and on a read error or timeout, or handles
\* the bytes read.
handleGenericTCPConnection(id) ==
    /\ id \in DOMAIN services
    /\ services[id].Instance.Type = ServiceTypeGeneric
    /\ services[id].Instance.Protocol = "tcp"
    /\ goroutines["conn"] = "running" /\ ~Blocked("conn")
    /\ \/ /\ goroutines' = [goroutines EXCEPT !["conn"] = "returned"]
          /\ UNCHANGED <<audioHub, sendq>>
       \/ /\ ~cancelled
          /\ FramesAccepted < MaxFrames
          /\ handleGenericPacket("conn", services[id].Instance)
          /\ UNCHANGED goroutines
    /\ UNCHANGED <<usrpVars, config, started, services, activeTransmissions, stats,
                   last, transient, received, lifeVars>>

\* housekeepingWorker: the iteration of the select that returns on
\* ctx.Done().  (On the ticker it writes stats.ActiveServices, a counter that
\* is not kept here.)
housekeepingWorker ==
    /\ goroutines["housekeeping"] = "running"
    /\ cancelled
    /\ goroutines' = [goroutines EXCEPT !["housekeeping"] = "returned"]
    /\ UNCHANGED <<usrpVars, config, started, services, audioHub, activeTransmissions,
                   stats, last, transient, sendq, received, lifeVars>>

\* ----------------------------------------------------------- lifecycle
\* Start: the dispatcher and the housekeeping goroutine are started, and
\* startService registers a connection and starts the worker of every
\* enabled service.
Start ==
    /\ ~started
    /\ started' = TRUE
    /\ services' = [id \in {i \in DOMAIN config.Services : config.Services[i].Enabled}
                       |-> ServiceConnection(config.Services[id])]
    /\ goroutines' = [g \in Goroutines |->
                        IF \/ g \in {"hub", "housekeeping"}
                           \/ g \in DOMAIN config.Services /\ config.Services[g].Enabled
                        THEN "running" ELSE "none"]
    /\ UNCHANGED <<usrpVars, config, audioHub, activeTransmissions, stats, last, transient,
                   sendq, received, lifeVars>>

\* Stop: r.cancel(); no ServiceConnection has a Connection to close; Stop
\* returns.
Stop ==
    /\ started
    /\ ~cancelled
    /\ cancelled' = TRUE
    /\ stopReturned' = TRUE
    /\ sinceCancel' = 0
    /\ UNCHANGED <<usrpVars, config, started, services, audioHub, activeTransmissions,
                   stats, last, transient, sendq, received, goroutines>>

\* listener.SetReadDeadline(time.Now().Add(1 * time.Second)), and the one
\* second sleep of the workers without a listener.
ReadDeadlineSeconds == 1

\* conn.SetReadDeadline(time.Now().Add(5 * time.Second))
TCPReadDeadlineSeconds == 5

\* Goroutine g can still be in its loop when another second passes after the
\* cancellation: a select on ctx.Done() returns at once, a blocking read
\* returns at its deadline, a TCP dial has no deadline.
MayStillRun(g) ==
    \/ goroutines[g] \in {"none", "returned"}
    \/ CASE g = "hub" -> goroutines[g] = "egress"
         [] g = "housekeeping" -> FALSE
         [] g = "conn" -> sinceCancel < TCPReadDeadlineSeconds
         [] OTHER -> sinceCancel < ReadDeadlineSeconds

\* One more second since msg.Timestamp (no longer counted past the timeout).
Older(msg) ==
    [msg EXCEPT !.Age = IF @ > config.TxTimeoutSeconds THEN @ ELSE @ + 1]

\* The wall clock advances by one second: every frame in the hub channel and
\* in the map is one second older.  No goroutine stays blocked in the 100 ms
\* hub send for a second, nor past its deadline after the cancellation; the
\* time after the last goroutine has returned is not followed.
Tick ==
    /\ sendq = <<>>
    /\ cancelled => /\ sinceCancel < MaxWait
                    /\ \A g \in Goroutines : MayStillRun(g)
                    /\ \E g \in Goroutines : Alive(g)
    /\ sinceCancel' = IF cancelled THEN sinceCancel + 1 ELSE sinceCancel
    /\ audioHub' = [i \in 1..Len(audioHub) |-> Older(audioHub[i])]
    /\ activeTransmissions' =
          [id \in DOMAIN activeTransmissions |-> Older(activeTransmissions[id])]
    /\ UNCHANGED <<usrpVars, config, started, services, stats, last, transient, sendq,
                   received, cancelled, stopReturned, goroutines>>

\* ------------------------------------------------------- configurations
ServiceIDs == {"a", "b", "c"}

\* No peer has sent a message and no datagram has left the router.
NothingSent ==
    /\ uc = 0
    /\ sent = [d \in ServiceIDs |-> <<>>]

\* The goroutines that write the Stats of the connection of a USRP service
\* with a listen and a remote address: its ingress worker and the hub
\* dispatcher.
StatWriters == {"worker", "hub"}

\* A time.Time read at instant t: its wall and ext words.
Time(t) == [wall |-> t, ext |-> t]

\* The ServiceConnection as startService builds it: Stats at its zero value,
\* LastSeen the time of the call.
NoTraffic ==
    /\ conn = [Stats |-> [MessagesSent |-> 0, MessagesReceived |-> 0,
                          BytesSent |-> 0, BytesReceived |-> 0,
                          LastActivity |-> Time(0), Errors |-> 0],
               LastSeen |-> Time(0)]
    /\ pc = [g \in StatWriters |-> "loop"]
    /\ reg = [g \in StatWriters |-> [n |-> 0, v |-> 0, words |-> {}]]
    /\ clock = 0
    /\ counted = [g \in StatWriters |-> [Messages |-> 0, Bytes |-> 0]]

\* A nil error, and the two kinds of error values the transport library
\* handles: the *net.OpError a UDP read returns, which has a Timeout method,
\* and the value fmt.Errorf builds, which has Error and Unwrap only.
NilError == [type |-> "nil", text |-> ""]

OpError(timeout) == [type |-> "*net.OpError", text |-> "read udp", timeout |-> timeout]

Errorf(text, err) == [type |-> "*fmt.wrapError", text |-> text, unwrap |-> err]

\* A UDPConnection whose Start has not been called.
NotReceiving ==
    /\ ctxDone = FALSE
    /\ startPc = "idle"
    /\ startErr = NilError
    /\ readErr = NilError
    /\ handled = <<>>
    /\ reads = 0

\* The goroutines that call the converter.
Callers == {"t1", "t2"}

\* NewStreamingConverter(config) has returned a converter: both FFmpeg
\* processes run, the pipes are open, closed is false and nobody holds
\* the mutex.
NewStreamingConverter ==
    /\ sc = [closed |-> FALSE, mutex |-> "", pipes |-> "open",
             processes |-> "running", readers |-> 0]
    /\ calls = [t \in Callers |-> [op |-> "", pc |-> "idle", after |-> FALSE, ret |-> ""]]
    /\ ncalls = 0
    /\ scHist = [closedOnce |-> FALSE, closeReturned |-> FALSE, touched |-> FALSE,
                 kills |-> 0]

\* The number of times a bridge is started.
MaxStarts == 2

\* The conversion workers: the two every Start of the bridge starts.
BridgeWorkers == (1..MaxStarts) \X {"usrpToFormatWorker", "formatToUSRPWorker"}

\* NewAudioBridge(converter): a stopChan of capacity 1, running false.
NewAudioBridge ==
    /\ ab = [running |-> FALSE, mutex |-> "", stopChan |-> 0]
    /\ abWorkers = [w \in BridgeWorkers |-> "none"]
    /\ abCtl = [pc |-> "idle", starts |-> 0, stops |-> 0, ret |-> ""]

\* The number of times a bot joins a voice channel.
MaxJoins == 2

\* The goroutines of a bot: the audioProcessor of every Start and the
\* receiveAudio of every JoinVoiceChannel.
BotGoroutines ==
    ({"audioProcessor"} \X (1..MaxStarts)) \cup ({"receiveAudio"} \X (1..MaxJoins))

\* NewBot(config): a stopChan of capacity 1, running false, no voice
\* connection, a session that is not open.
NewBot ==
    /\ bot = [running |-> FALSE, mutex |-> "", voiceConn |-> FALSE, stopChan |-> 0,
              session |-> "closed"]
    /\ botCtx = FALSE
    /\ botGo = [g \in BotGoroutines |-> [at |-> "none", run |-> 0]]
    /\ botCtl = [pc |-> "idle", starts |-> 0, joins |-> 0, stops |-> 0, ret |-> ""]

\* No call of the libraries beside the packet library is in progress.
LibraryIdle ==
    /\ NotReceiving
    /\ NewStreamingConverter
    /\ NewAudioBridge
    /\ NewBot

\* Priorities of the three services (0-10).
PriorityMaps == {[a |-> 3, b |-> 7, c |-> 5]}

\* Two USRP nodes and one WhoTalkie instance; only a has a remote address.
HubServices(prio) ==
    [id \in ServiceIDs |->
        CASE id = "a" -> ServiceInstance("a", ServiceTypeUSRP, TRUE, TRUE, "pcm", prio.a)
          [] id = "b" -> ServiceInstance("b", ServiceTypeUSRP, TRUE, FALSE, "pcm", prio.b)
          [] OTHER -> ServiceInstance("c", ServiceTypeWhoTalkie, TRUE, FALSE, "opus", prio.c)]

\* State after NewAudioRouter(config).
NewAudioRouter ==
    /\ started = FALSE
    /\ services = [id \in {} |-> ServiceConnection(0)]
    /\ audioHub = <<>>
    /\ activeTransmissions = EmptyMap
    /\ stats = [TotalMessages |-> 0, RoutedMessages |-> 0,
                DroppedMessages |-> 0, ActiveTransmissions |-> 0]
    /\ last = NoCall
    /\ transient = FALSE
    /\ sendq = <<>>
    /\ received = [d \in ServiceIDs |-> <<>>]
    /\ cancelled = FALSE
    /\ sinceCancel = 0
    /\ goroutines = [g \in Goroutines |-> "none"]
    /\ stopReturned = FALSE
    /\ NoPacketInHand
    /\ NothingSent
    /\ NoTraffic
    /\ LibraryIdle

Init ==
    /\ \E max \in 1..2, rules \in BOOLEAN, prio \in PriorityMaps,
          routing \in {"all-to-all"} :
          config = [MaxConcurrentTx |-> max, TxTimeoutSeconds |-> 1,
                    BufferSize |-> 2, EnableConversion |-> TRUE,
                    EnablePriorityRules |-> rules, PreventLoops |-> TRUE,
                    DefaultRouting |-> routing, Services |-> HubServices(prio)]
    /\ NewAudioRouter

Next ==
    \/ Start
    \/ Tick
    \/ \E id \in ServiceIDs : usrpServiceWorker(id)
    \/ \E id \in ServiceIDs : whoTalkieServiceWorker(id)
    \/ audioHubWorker
    \/ \E g \in ServiceIDs : hubSendTimeout(g)

Spec == Init /\ [][Next]_vars

\* ------------------------------------------- routing specification
\* The routing decision on one frame, for the routing configurations: the
\* frame's source, its exclude_ids and route_to_types, the source's
\* send_to_types and exclude_services, the other services' receive_from, one
\* service that cannot receive, one service that is disabled, and the source
\* with can_send set or not.
RouteTypes ==
    [a |-> ServiceTypeUSRP, b |-> ServiceTypeWhoTalkie, c |-> ServiceTypeDiscord]

RouteFormats == [a |-> "pcm", b |-> "opus", c |-> "pcm"]

RouteServices(src, sendTo, excl, recvFrom, deaf, disabled, mute) ==
    [id \in ServiceIDs |->
        [ID |-> id, Type |-> RouteTypes[id], Enabled |-> id # disabled,
         Listen |-> TRUE, Remote |-> id = "a", Protocol |-> "udp",
         Format |-> RouteFormats[id],
         CanSend |-> id # mute, CanReceive |-> id # deaf,
         SendToTypes |-> IF id = src THEN sendTo ELSE {},
         ReceiveFrom |-> IF id = src THEN {} ELSE recvFrom,
         ExcludeServices |-> IF id = src THEN excl ELSE {},
         Priority |-> 5]]

InitRoute ==
    /\ \E src \in ServiceIDs,
          routing \in {"all-to-all", "hub-only", "none", ""},
          loops \in BOOLEAN,
          sendTo \in {{}, {ServiceTypeWhoTalkie}, {ServiceTypeUSRP, ServiceTypeDiscord}},
          excl \in {{}, {"b"}, {"a", "c"}},
          recvFrom \in {{}, {ServiceTypeUSRP}, {ServiceTypeWhoTalkie, ServiceTypeDiscord}},
          deaf \in {""} \cup ServiceIDs,
          disabled \in {""} \cup ServiceIDs,
          mute \in BOOLEAN,
          excludeIDs \in {{}, {"c"}, {"a", "b"}},
          routeTo \in {{}, {ServiceTypeDiscord}} :
          /\ disabled # src
          /\ config = [MaxConcurrentTx |-> 3, TxTimeoutSeconds |-> 1,
                       BufferSize |-> 2, EnableConversion |-> TRUE,
                       EnablePriorityRules |-> TRUE, PreventLoops |-> loops,
                       DefaultRouting |-> routing,
                       Services |-> RouteServices(src, sendTo, excl, recvFrom,
                                                  deaf, disabled,
                                                  IF mute THEN src ELSE "")]
          /\ audioHub = <<[AudioMessage(config.Services[src], TRUE)
                              EXCEPT !.ExcludeIDs = excludeIDs,
                                     !.RouteToTypes = routeTo]>>
    /\ started = TRUE
    /\ services = [id \in {i \in ServiceIDs : config.Services[i].Enabled}
                      |-> ServiceConnection(config.Services[id])]
    /\ activeTransmissions = EmptyMap
    /\ stats = [TotalMessages |-> 0, RoutedMessages |-> 0,
                DroppedMessages |-> 0, ActiveTransmissions |-> 0]
    /\ last = NoCall
    /\ transient = FALSE
    /\ sendq = <<>>
    /\ received = [d \in ServiceIDs |-> <<>>]
    /\ cancelled = FALSE
    /\ sinceCancel = 0
    /\ goroutines = [g \in Goroutines |->
                        IF g \in {"hub", "housekeeping"} \cup DOMAIN services
                        THEN "running" ELSE "none"]
    /\ stopReturned = FALSE
    /\ NoPacketInHand
    /\ NothingSent
    /\ NoTraffic
    /\ LibraryIdle

NextRoute == audioHubWorker

SpecRoute == InitRoute /\ [][NextRoute]_vars

\* ------------------------------------------- lifecycle specification
\* A USRP node, a generic TCP service and a disabled WhoTalkie instance, with
\* a hub channel of one slot, started and then stopped.
LifeServices ==
    [id \in ServiceIDs |->
        CASE id = "a" -> ServiceInstance("a", ServiceTypeUSRP, TRUE, TRUE, "pcm", 5)
          [] id = "b" -> [ServiceInstance("b", ServiceTypeGeneric, TRUE, TRUE, "pcm", 5)
                             EXCEPT !.Protocol = "tcp"]
          [] OTHER -> [ServiceInstance("c", ServiceTypeWhoTalkie, TRUE, FALSE, "opus", 5)
                          EXCEPT !.Enabled = FALSE]]

InitLife ==
    /\ \E routing \in {"all-to-all", "none"} :
          config = [MaxConcurrentTx |-> 1, TxTimeoutSeconds |-> 1,
                    BufferSize |-> 1, EnableConversion |-> TRUE,
                    EnablePriorityRules |-> FALSE, PreventLoops |-> TRUE,
                    DefaultRouting |-> routing, Services |-> LifeServices]
    /\ NewAudioRouter

NextLife ==
    \/ Start
    \/ Stop
    \/ Tick
    \/ \E id \in ServiceIDs : usrpServiceWorker(id)
    \/ \E id \in ServiceIDs : genericServiceWorker(id)
    \/ \E id \in ServiceIDs : handleGenericTCPConnection(id)
    \/ \E g \in Goroutines : hubSendTimeout(g)
    \/ audioHubWorker
    \/ egressReturns
    \/ housekeepingWorker

SpecLife == InitLife /\ [][NextLife]_vars

\* --------------------------------------- packet library specification
\* A caller holds one message, encodes it, and decodes the datagram it gets:
\* the encoded bytes as they are, cut short, with a wrong magic, or followed
\* by more bytes.
\* The texts and ADPCM payloads have at most MaxText bytes.
MaxText == 2
\* The TLV messages have at most MaxTLVs items.
MaxTLVs == 2

\* The sequences over S of at most n elements.
SeqsUpTo(S, n) == UNION {[1..k -> S] : k \in 0..n}

\* The headers of a message of packet type own: as NewHeader builds it for
\* the type itself, for another type and for a value outside the enum; with
\* every field set; and with only the Type set, as in Header{Type: own}.
HeaderValues(own) ==
    {NewHeader(t, 0) : t \in {own, (own + 1) % 7, 7}}
    \cup {[SetPTT(NewHeader(own, 1234), TRUE)
              EXCEPT !.TalkGroup = 5678, !.Memory = 16909060, !.MpxID = 258,
                     !.Reserved = 2147483647]}
    \cup {[ZeroHeader EXCEPT !.Type = own]}

\* 160 samples: silence, the ramp a[i] = i, and the extreme values.
SampleValues ==
    {[i \in 1..VoiceFrameSize |-> 0],
     [i \in 1..VoiceFrameSize |-> i - 1],
     [i \in 1..VoiceFrameSize |->
        CASE i % 4 = 0 -> -32768 [] i % 4 = 1 -> 32767 [] i % 4 = 2 -> -1
          [] OTHER -> 258]}

\* The digit bytes around the edges of '#', '*', '0'..'9' and 'A'..'D'.
DigitValues ==
    {0, 34, 35, 36, 41, 42, 43, 47, 48, 53, 57, 58, 64, 65, 68, 69, 70, 88, 97, 255}

\* The TLV items: a callsign, an item without value, AMBE bytes, and an item
\* whose Length field is not the length of its Value.
ItemValues ==
    {[Tag |-> 8, Length |-> 2, Value |-> <<87, 49>>],
     [Tag |-> 1, Length |-> 0, Value |-> <<>>],
     [Tag |-> 2, Length |-> 3, Value |-> <<1, 2, 3>>],
     [Tag |-> 8, Length |-> 5, Value |-> <<1>>]}

MessageValues ==
    {[Kind |-> "VoiceMessage", Header |-> h, AudioData |-> a] :
        h \in HeaderValues(USRP_TYPE_VOICE), a \in SampleValues}
    \cup {[Kind |-> "DTMFMessage", Header |-> h, Digit |-> d] :
        h \in HeaderValues(USRP_TYPE_DTMF), d \in DigitValues}
    \cup {[Kind |-> "TextMessage", Header |-> h, Text |-> t] :
        h \in HeaderValues(USRP_TYPE_TEXT), t \in SeqsUpTo({87, 255}, MaxText)}
    \cup {[Kind |-> "PingMessage", Header |-> h] : h \in HeaderValues(USRP_TYPE_PING)}
    \cup {[Kind |-> "TLVMessage", Header |-> h, TLVs |-> t] :
        h \in HeaderValues(USRP_TYPE_TLV), t \in SeqsUpTo(ItemValues, MaxTLVs)}
    \cup {[Kind |-> "VoiceULawMessage", Header |-> h, AudioData |-> a] :
        h \in HeaderValues(USRP_TYPE_VOICE_ULAW),
        a \in {[i \in 1..VoiceFrameSize |-> 255], [i \in 1..VoiceFrameSize |-> i]}}
    \cup {[Kind |-> "VoiceADPCMMessage", Header |-> h, AudioData |-> a] :
        h \in HeaderValues(USRP_TYPE_VOICE_ADPCM), a \in SeqsUpTo({119}, MaxText)}

\* The datagrams that can arrive in place of the encoded bytes b.
Datagrams(b) ==
    {SubSeq(b, 1, n) : n \in {3, HeaderSize - 1, Len(b) - 1}}
    \cup {[b EXCEPT ![4] = 81], b \o <<8, 0, 0>>, b \o <<8>>, b \o <<8, 0>>}

\* data, err := msg.Marshal()
Encode ==
    /\ buffer' = Marshal(message)
    /\ parsed' = NotParsed
    /\ UNCHANGED <<message, verdict, routerVars, egressVars, statVars, libVars>>

\* Another datagram than the encoded one is read.
Datagram ==
    /\ buffer = Marshal(message)
    /\ \E d \in Datagrams(buffer) : buffer' = d
    /\ parsed' = NotParsed
    /\ UNCHANGED <<message, verdict, routerVars, egressVars, statVars, libVars>>

\* err := msg.Unmarshal(buffer) on a fresh message of Go type kind.
Decode(kind) ==
    /\ buffer # <<>>
    /\ parsed' = [by |-> kind] @@ Unmarshal(kind, buffer)
    /\ UNCHANGED <<message, buffer, verdict, routerVars, egressVars, statVars, libVars>>

\* msg, err := uc.ReceiveMessage() reading the datagram.
Receive ==
    /\ buffer # <<>>
    /\ parsed' = [by |-> "ReceiveMessage"] @@ ReceiveMessage(buffer)
    /\ UNCHANGED <<message, buffer, verdict, routerVars, egressVars, statVars, libVars>>

\* msg, err := parseUSRPPacket(data)
Parse ==
    /\ buffer # <<>>
    /\ parsed' = [by |-> "parseUSRPPacket"] @@ parseUSRPPacket(buffer)
    /\ UNCHANGED <<message, buffer, verdict, routerVars, egressVars, statVars, libVars>>

\* err := msg.Validate()
CheckValid ==
    /\ verdict' = Validate(message)
    /\ UNCHANGED <<message, buffer, parsed, routerVars, egressVars, statVars, libVars>>

\* The router of the lifecycle specification, never started.
RouterIdle ==
    /\ config = [MaxConcurrentTx |-> 1, TxTimeoutSeconds |-> 1,
                 BufferSize |-> 1, EnableConversion |-> TRUE,
                 EnablePriorityRules |-> FALSE, PreventLoops |-> TRUE,
                 DefaultRouting |-> "all-to-all", Services |-> LifeServices]
    /\ started = FALSE
    /\ services = [id \in {} |-> ServiceConnection(0)]
    /\ audioHub = <<>>
    /\ activeTransmissions = EmptyMap
    /\ stats = [TotalMessages |-> 0, RoutedMessages |-> 0,
                DroppedMessages |-> 0, ActiveTransmissions |-> 0]
    /\ last = NoCall
    /\ transient = FALSE
    /\ sendq = <<>>
    /\ received = [d \in ServiceIDs |-> <<>>]
    /\ cancelled = FALSE
    /\ sinceCancel = 0
    /\ goroutines = [g \in Goroutines |-> "none"]
    /\ stopReturned = FALSE

InitCodec ==
    /\ RouterIdle
    /\ NothingSent
    /\ NoTraffic
    /\ LibraryIdle
    /\ message \in MessageValues
    /\ buffer = <<>>
    /\ parsed = NotParsed
    /\ verdict = ""

NextCodec ==
    \/ Encode
    \/ Datagram
    \/ \E kind \in Kinds : Decode(kind)
    \/ Receive
    \/ Parse
    \/ CheckValid

SpecCodec == InitCodec /\ [][NextCodec]_vars

\* ---------------------------------------------- USRP egress specification
\* The started router between a USRP node a that sends voice through the
\* transport library, a generic UDP source b of raw pcm payloads, and a USRP
\* destination c.  The frames carry their payload, sequence number and talk
\* group, and every datagram written to c is kept.
EgressServices ==
    [id \in ServiceIDs |->
        CASE id = "a" -> ServiceInstance("a", ServiceTypeUSRP, TRUE, FALSE, "pcm", 5)
          [] id = "b" -> ServiceInstance("b", ServiceTypeGeneric, TRUE, FALSE, "pcm", 5)
          [] OTHER -> ServiceInstance("c", ServiceTypeUSRP, FALSE, TRUE, "pcm", 5)]

\* The voice message node a hands to SendMessage: PTT on, a talk group, and
\* a ramp of samples through zero.
PeerVoice ==
    [Kind |-> "VoiceMessage",
     Header |-> [SetPTT(NewHeader(USRP_TYPE_VOICE, 0), TRUE) EXCEPT !.TalkGroup = 5678],
     AudioData |-> [i \in 1..VoiceFrameSize |-> 200 * (i - 81)]]

\* A raw payload of n bytes, with bytes on both sides of 128.
Payload(n) == [k \in 1..n |-> (37 * k + 200) % 256]

\* The payloads source b sends: one sample short of a voice frame, a voice
\* frame, one sample more.
PayloadValues == {Payload(2 * n) : n \in {VoiceFrameSize - 1, VoiceFrameSize,
                                          VoiceFrameSize + 1}}

\* (*UDPConnection).SendMessage(msg) on a connection whose counter is
\* sequenceNum: the message is validated, the counter is incremented under
\* seqMutex and written into the header, the message is marshalled and
\* written to the socket.
SendMessage(msg, sequenceNum) ==
    IF Validate(msg) # nil
    THEN [err |-> "message validation failed", sequenceNum |-> sequenceNum,
          msg |-> msg, data |-> <<>>]
    ELSE LET seq == sequenceNum + 1
             m == [msg EXCEPT !.Header.Seq = seq]
         IN  [err |-> nil, sequenceNum |-> seq, msg |-> m, data |-> Marshal(m)]

\* Node a sends its next voice message to the router's listener for a.
PeerSendMessage ==
    /\ started
    /\ buffer = <<>>
    /\ uc < MaxFrames
    /\ LET r == SendMessage(PeerVoice, uc) IN
          /\ r.err = nil
          /\ uc' = r.sequenceNum
          /\ message' = r.msg
          /\ buffer' = r.data
    /\ UNCHANGED <<routerVars, parsed, verdict, sent, statVars, libVars>>

\* The 320 bytes handleUSRPPacket makes of the 160 samples: byte(sample &
\* 0xFF), then byte((sample >> 8) & 0xFF).
audioData(samples) ==
    [k \in 1..(2 * VoiceFrameSize) |->
        IF k % 2 = 1 THEN samples[(k + 1) \div 2] % 256
        ELSE (samples[k \div 2] \div 256) % 256]

\* The AudioMessage handleUSRPPacket builds from a VoiceMessage.
VoiceAudioMessage(service, typedMsg) ==
    [AudioMessage(service, IsPTT(typedMsg.Header)) EXCEPT !.Format = "pcm"]
    @@ [Data |-> audioData(typedMsg.AudioData),
        SequenceNum |-> typedMsg.Header.Seq,
        TalkGroup |-> typedMsg.Header.TalkGroup]

\* handleUSRPPacket(service, data, remoteAddr): the packet is parsed; a VOICE
\* packet becomes a pcm AudioMessage offered to the hub; a packet that does
\* not parse, and a packet of another type, is left.
handleUSRPData(service, data) ==
    LET p == parseUSRPPacket(data) IN
    IF p.err # nil \/ p.msg.Kind # "VoiceMessage"
    THEN UNCHANGED <<audioHub, sendq>>
    ELSE SendToHub(service.ID, VoiceAudioMessage(service, p.msg))

\* The AudioMessage handleGenericPacket builds: the packet is the payload,
\* SequenceNum and TalkGroup keep their zero value.
GenericAudioMessage(service, data) ==
    AudioMessage(service, TRUE)
    @@ [Data |-> data, SequenceNum |-> 0, TalkGroup |-> 0]

\* usrpServiceWorker: the iteration that reads the datagram in flight.
usrpServiceWorkerReads(id) ==
    /\ id \in DOMAIN services
    /\ services[id].Instance.Type = ServiceTypeUSRP
    /\ goroutines[id] = "running" /\ ~Blocked(id)
    /\ ~cancelled
    /\ services[id].Instance.Listen
    /\ buffer # <<>>
    /\ FramesAccepted < MaxFrames
    /\ handleUSRPData(services[id].Instance, buffer)
    /\ buffer' = <<>>
    /\ UNCHANGED <<message, parsed, verdict, egressVars, statVars, libVars, config, started,
                   services,
                   activeTransmissions, stats, last, transient, received,
                   goroutines, lifeVars>>

\* genericServiceWorker on UDP: the iteration that reads a raw payload.
genericServiceWorkerReads(id) ==
    /\ id \in DOMAIN services
    /\ services[id].Instance.Type = ServiceTypeGeneric
    /\ services[id].Instance.Protocol = "udp"
    /\ goroutines[id] = "running" /\ ~Blocked(id)
    /\ ~cancelled
    /\ services[id].Instance.Listen
    /\ FramesAccepted < MaxFrames
    /\ \E data \in PayloadValues :
          SendToHub(id, GenericAudioMessage(services[id].Instance, data))
    /\ UNCHANGED <<usrpVars, config, started, services, activeTransmissions, stats,
                   last, transient, received, goroutines, lifeVars>>

\* voice.AudioData after the copy loop of sendToUSRPService: the loop runs
\* only when the payload has 320 bytes or more, over i < 160 while
\* i*2+1 < len(msg.Data), and sets sample i to
\* int16(msg.Data[i*2]) | int16(msg.Data[i*2+1])<<8.
AudioDataOf(data) ==
    [i \in 1..VoiceFrameSize |->
        IF Len(data) >= 2 * VoiceFrameSize /\ (i - 1) * 2 + 1 < Len(data)
        THEN Int16(data[2 * i - 1], data[2 * i])
        ELSE 0]

\* The bytes sendToUSRPService writes for msg: the marshalled VOICE packet
\* of a pcm frame, and the payload itself for another format (the converter
\* is a placeholder).
usrpData(msg) ==
    IF msg.Format = "pcm"
    THEN Marshal([Kind |-> "VoiceMessage",
                  Header |-> [SetPTT(NewHeader(USRP_TYPE_VOICE, msg.SequenceNum),
                                     msg.PTTActive)
                                 EXCEPT !.TalkGroup = msg.TalkGroup],
                  AudioData |-> AudioDataOf(msg.Data)])
    ELSE msg.Data

\* sendToUSRPService for the USRP destinations whose send succeeded.
Written(accepted, msg) ==
    [d \in DOMAIN sent |->
        IF d \in accepted /\ services[d].Instance.Type = ServiceTypeUSRP
        THEN Append(sent[d], [msg |-> msg, data |-> usrpData(msg)])
        ELSE sent[d]]

\* audioHubWorker: the iteration that receives a frame from the channel and
\* routes it, with the datagrams its sends write.
audioHubWorkerSends ==
    /\ goroutines["hub"] = "running"
    /\ ~cancelled
    /\ audioHub # <<>>
    /\ ChanRecv
    /\ \E accepted \in SUBSET DOMAIN services :
          /\ routeAudioMessage(Head(audioHub), accepted)
          /\ sent' = Written(accepted, Head(audioHub))
    /\ goroutines' =
          [goroutines EXCEPT !["hub"] = audioHubWorkerLoop(FrameError(last'))]
    /\ UNCHANGED <<codecVars, uc, statVars, libVars, config, started, services, lifeVars>>


\* The router after NewAudioRouter(config) and Start() with the services svcs,
\* before any packet.
Started(svcs) ==
    /\ config = [MaxConcurrentTx |-> 2, TxTimeoutSeconds |-> 1,
                 BufferSize |-> 1, EnableConversion |-> TRUE,
                 EnablePriorityRules |-> FALSE, PreventLoops |-> TRUE,
                 DefaultRouting |-> "all-to-all", Services |-> svcs]
    /\ started = TRUE
    /\ services = [id \in ServiceIDs |-> ServiceConnection(config.Services[id])]
    /\ audioHub = <<>>
    /\ activeTransmissions = EmptyMap
    /\ stats = [TotalMessages |-> 0, RoutedMessages |-> 0,
                DroppedMessages |-> 0, ActiveTransmissions |-> 0]
    /\ last = NoCall
    /\ transient = FALSE
    /\ sendq = <<>>
    /\ received = [d \in ServiceIDs |-> <<>>]
    /\ cancelled = FALSE
    /\ sinceCancel = 0
    /\ goroutines = [g \in Goroutines |->
                        IF g \in {"hub", "housekeeping"} \cup DOMAIN services
                        THEN "running" ELSE "none"]
    /\ stopReturned = FALSE

InitEgress ==
    /\ Started(EgressServices)
    /\ NoPacketInHand
    /\ NothingSent
    /\ NoTraffic
    /\ LibraryIdle

NextEgress ==
    \/ PeerSendMessage
    \/ \E id \in ServiceIDs : usrpServiceWorkerReads(id)
    \/ \E id \in ServiceIDs : genericServiceWorkerReads(id)
    \/ audioHubWorkerSends
    \/ \E g \in ServiceIDs : hubSendTimeout(g)

SpecEgress == InitEgress /\ [][NextEgress]_vars

\* ------------------------------------- per-service statistics specification
\* The statements that update the Stats of the connection of USRP service a,
\* which has a listen and a remote address: its ingress worker counts every
\* packet it reads, the hub dispatcher counts every packet it sends to a.
\* Neither takes a lock nor uses sync/atomic, so each statement is a sequence
\* of loads and stores, and the stores of a time.Time go word by word in an
\* unspecified order.  The frames themselves are left out.
MessagesField(g) == IF g = "hub" THEN "MessagesSent" ELSE "MessagesReceived"

BytesField(g) == IF g = "hub" THEN "BytesSent" ELSE "BytesReceived"

\* usrpServiceWorker: an iteration reads a packet of n bytes and has it
\* handled; the statistics follow.
usrpServiceWorkerCounts ==
    /\ "a" \in DOMAIN services
    /\ services["a"].Instance.Type = ServiceTypeUSRP
    /\ services["a"].Instance.Listen
    /\ goroutines["a"] = "running"
    /\ pc["worker"] = "loop"
    /\ counted["worker"].Messages < MaxFrames
    /\ \E n \in {HeaderSize, HeaderSize + 2 * VoiceFrameSize} :
          reg' = [reg EXCEPT !["worker"].n = n]
    /\ pc' = [pc EXCEPT !["worker"] = "messages"]
    /\ UNCHANGED <<routerVars, codecVars, egressVars, libVars, conn, clock, counted>>

\* sendToUSRPService(msg, conn) up to the udpConn.Write that succeeds, of a
\* VOICE packet; the statistics follow.
sendToUSRPServiceCounts ==
    /\ "a" \in DOMAIN services
    /\ TRUE \in sendToService([Format |-> "pcm"], services["a"].Instance)
    /\ goroutines["hub"] = "running"
    /\ pc["hub"] = "loop"
    /\ counted["hub"].Messages < MaxFrames
    /\ reg' = [reg EXCEPT !["hub"].n = HeaderSize + 2 * VoiceFrameSize]
    /\ pc' = [pc EXCEPT !["hub"] = "messages"]
    /\ UNCHANGED <<routerVars, codecVars, egressVars, libVars, conn, clock, counted>>

\* conn.Stats.MessagesReceived++, conn.Stats.BytesReceived += uint64(n) and
\* their Sent counterparts: the load of the counter.
LoadCounter(g) ==
    /\ pc[g] \in {"messages", "bytes"}
    /\ reg' = [reg EXCEPT ![g].v =
                  conn.Stats[IF pc[g] = "messages" THEN MessagesField(g)
                             ELSE BytesField(g)]]
    /\ pc' = [pc EXCEPT ![g] = pc[g] \o "+"]
    /\ UNCHANGED <<routerVars, codecVars, egressVars, libVars, conn, clock, counted>>

\* ... and the store of the value loaded plus the increment.
StoreCounter(g) ==
    /\ pc[g] \in {"messages+", "bytes+"}
    /\ IF pc[g] = "messages+"
       THEN /\ conn' = [conn EXCEPT !.Stats[MessagesField(g)] = reg[g].v + 1]
            /\ counted' = [counted EXCEPT ![g].Messages = @ + 1]
            /\ pc' = [pc EXCEPT ![g] = "bytes"]
       ELSE /\ conn' = [conn EXCEPT !.Stats[BytesField(g)] = reg[g].v + reg[g].n]
            /\ counted' = [counted EXCEPT ![g].Bytes = @ + reg[g].n]
            /\ pc' = [pc EXCEPT ![g] = "activity"]
    /\ UNCHANGED <<routerVars, codecVars, egressVars, libVars, reg, clock>>

\* conn.Stats.LastActivity = time.Now(): the call of time.Now().
Now(g) ==
    /\ pc[g] = "activity"
    /\ clock' = clock + 1
    /\ reg' = [reg EXCEPT ![g].v = clock', ![g].words = {"wall", "ext"}]
    /\ pc' = [pc EXCEPT ![g] = "activity="]
    /\ UNCHANGED <<routerVars, codecVars, egressVars, libVars, conn, counted>>

\* ... and the store of one word of the value into conn.Stats.LastActivity.
StoreWord(g) ==
    /\ pc[g] = "activity="
    /\ \E w \in reg[g].words :
          /\ conn' = [conn EXCEPT !.Stats.LastActivity[w] = Time(reg[g].v)[w]]
          /\ reg' = [reg EXCEPT ![g].words = @ \ {w}]
          /\ pc' = [pc EXCEPT ![g] =
                       IF reg'[g].words # {} THEN "activity="
                       ELSE IF g = "worker" THEN "seen" ELSE "loop"]
    /\ UNCHANGED <<routerVars, codecVars, egressVars, libVars, clock, counted>>

\* conn.LastSeen = time.Now(), which only the ingress worker writes.
SetLastSeen ==
    /\ pc["worker"] = "seen"
    /\ clock' = clock + 1
    /\ conn' = [conn EXCEPT !.LastSeen = Time(clock')]
    /\ pc' = [pc EXCEPT !["worker"] = "loop"]
    /\ UNCHANGED <<routerVars, codecVars, egressVars, libVars, reg, counted>>

InitStats ==
    /\ Started(HubServices(CHOOSE prio \in PriorityMaps : TRUE))
    /\ NoPacketInHand
    /\ NothingSent
    /\ NoTraffic
    /\ LibraryIdle

NextStats ==
    \/ usrpServiceWorkerCounts
    \/ sendToUSRPServiceCounts
    \/ \E g \in StatWriters : LoadCounter(g)
    \/ \E g \in StatWriters : StoreCounter(g)
    \/ \E g \in StatWriters : Now(g)
    \/ \E g \in StatWriters : StoreWord(g)
    \/ SetLastSeen

SpecStats == InitStats /\ [][NextStats]_vars

\* ------------------------------------------ receive loop specification
\* (*UDPConnection).Start(ctx) of the transport library on an established
\* connection: the loop that sets a one-second read deadline, receives one
\* message and starts its handler.
MaxReads == 3

\* The datagrams a peer sends to the connection: a voice frame, a digit, a
\* text, a ping, a header cut short and a packet of an unknown type.
StartDatagrams ==
    {Marshal([Kind |-> "VoiceMessage", Header |-> NewHeader(USRP_TYPE_VOICE, 1),
              AudioData |-> [i \in 1..VoiceFrameSize |-> i - 1]]),
     Marshal([Kind |-> "DTMFMessage", Header |-> NewHeader(USRP_TYPE_DTMF, 2),
              Digit |-> 53]),
     Marshal([Kind |-> "TextMessage", Header |-> NewHeader(USRP_TYPE_TEXT, 3),
              Text |-> <<87>>]),
     Marshal([Kind |-> "PingMessage", Header |-> NewHeader(USRP_TYPE_PING, 4)]),
     SubSeq(Marshal([Kind |-> "PingMessage",
                     Header |-> NewHeader(USRP_TYPE_PING, 5)]), 1, HeaderSize - 1),
     Marshal([Kind |-> "PingMessage", Header |-> NewHeader(7, 6)])}

\* What uc.conn.ReadFromUDP(buffer) returns under the deadline: a datagram,
\* the timeout error of the deadline, or another error of the socket.
ReadOutcomes ==
    {[data |-> d, err |-> NilError] : d \in StartDatagrams}
    \cup {[data |-> <<>>, err |-> OpError(t)] : t \in BOOLEAN}

\* (*UDPConnection).ReceiveMessage() on the outcome of its ReadFromUDP:
\* every error it returns is built by fmt.Errorf, the read error wrapped
\* with %w.
ReceiveMessageOn(read) ==
    IF read.err # NilError
    THEN [err |-> Errorf("failed to read UDP packet", read.err), msg |-> NoPacket]
    ELSE LET r == ReceiveMessage(read.data) IN
         IF r.err # nil
         THEN [err |-> Errorf(r.err, NilError), msg |-> NoPacket]
         ELSE [err |-> NilError, msg |-> r.msg]

\* netErr, ok := err.(net.Error); ok && netErr.Timeout(): the assertion
\* holds for a value whose own type has the Timeout method.
IsTimeout(err) == err.type = "*net.OpError" /\ err.timeout

\* The packet types a handler is registered for (RegisterHandler).
Handlers == {USRP_TYPE_VOICE, USRP_TYPE_DTMF, USRP_TYPE_PING}

\* A step outside the receive loop leaves these alone.
besideStart == <<routerVars, codecVars, egressVars, statVars, convVars, bridgeVars,
                 botVars>>

\* The select at the top of the loop: ctx.Done() returns ctx.Err(), the
\* default case sets the read deadline.
StartSelect ==
    /\ startPc = "select"
    /\ readErr' = NilError
    /\ IF ctxDone
       THEN /\ startPc' = "returned"
            /\ startErr' = [type |-> "*errors.errorString", text |-> "context canceled"]
       ELSE /\ reads < MaxReads
            /\ \E deadlineSet \in BOOLEAN :
                  IF deadlineSet
                  THEN /\ startPc' = "receive"
                       /\ UNCHANGED startErr
                  ELSE /\ startPc' = "returned"
                       /\ startErr' = Errorf("failed to set read deadline",
                                             OpError(FALSE))
    /\ UNCHANGED <<ctxDone, handled, reads, besideStart>>

\* msg, err := uc.ReceiveMessage() and the rest of the iteration.
StartReceive ==
    /\ startPc = "receive"
    /\ \E read \in ReadOutcomes :
          LET r == ReceiveMessageOn(read) IN
          /\ readErr' = read.err
          /\ reads' = reads + 1
          /\ IF r.err # NilError
             THEN IF IsTimeout(r.err)
                  THEN /\ startPc' = "select"
                       /\ UNCHANGED <<startErr, handled>>
                  ELSE /\ startPc' = "returned"
                       /\ startErr' = Errorf("failed to receive message", r.err)
                       /\ UNCHANGED handled
             ELSE /\ startPc' = "select"
                  /\ handled' = IF GetType(r.msg) \in Handlers
                                THEN Append(handled, GetType(r.msg))
                                ELSE handled
                  /\ UNCHANGED startErr
    /\ UNCHANGED <<ctxDone, besideStart>>

\* The caller of Start cancels the context.
StartCancel ==
    /\ startPc # "idle"
    /\ ~ctxDone
    /\ ctxDone' = TRUE
    /\ UNCHANGED <<startPc, startErr, readErr, handled, reads, besideStart>>

\* Start has been called on an established connection.
InitStart ==
    /\ RouterIdle
    /\ NoPacketInHand
    /\ NothingSent
    /\ NoTraffic
    /\ NewStreamingConverter
    /\ NewAudioBridge
    /\ NewBot
    /\ ctxDone = FALSE
    /\ startPc = "select"
    /\ startErr = NilError
    /\ readErr = NilError
    /\ handled = <<>>
    /\ reads = 0

NextStart == StartSelect \/ StartReceive \/ StartCancel

SpecStart == InitStart /\ [][NextStart]_vars

\* ------------------------------------------ audio converter specification
\* A StreamingConverter shared by goroutines that call USRPToFormat,
\* FormatToUSRP and Close.  Every method locks sc.mutex for its whole body.
MaxCalls == 4

ConverterOps == {"USRPToFormat", "FormatToUSRP", "Close"}

\* A test that lets every call through.
ClosedTestSkipped(op, closed) ==
    IF op = "Close" THEN [pc |-> "close", ret |-> ""]
                    ELSE [pc |-> "write", ret |-> ""]

\* The test of sc.closed at the head of a method, under the mutex: where the
\* method goes next and what it returns if it returns there.
ClosedTest(op, closed) ==
    IF op = "Close"
    THEN IF closed THEN [pc |-> "unlock", ret |-> "nil"]
                   ELSE [pc |-> "close", ret |-> ""]
    ELSE IF closed THEN [pc |-> "unlock", ret |-> "converter is closed"]
                   ELSE [pc |-> "write", ret |-> ""]

\* A step of the converter leaves these alone.
besideConverter == <<routerVars, codecVars, egressVars, statVars, startVars, bridgeVars,
                     botVars>>

\* The statement caller t is at.
At(t, stmt) == calls[t].pc = stmt

Goto(t, stmt, ret) == [calls EXCEPT ![t].pc = stmt, ![t].ret = ret]

\* A goroutine calls a method of the converter.
ConverterCall(t) ==
    /\ At(t, "idle")
    /\ ncalls < MaxCalls
    /\ \E op \in ConverterOps :
          calls' = [calls EXCEPT ![t] = [op |-> op, pc |-> "lock",
                                         after |-> scHist.closeReturned, ret |-> ""]]
    /\ ncalls' = ncalls + 1
    /\ UNCHANGED <<sc, scHist, besideConverter>>

\* sc.mutex.Lock() and the test of sc.closed.
ConverterLock(t) ==
    /\ At(t, "lock")
    /\ sc.mutex = ""
    /\ sc' = [sc EXCEPT !.mutex = t]
    /\ LET next == ClosedTest(calls[t].op, sc.closed)
       IN  calls' = Goto(t, next.pc, next.ret)
    /\ UNCHANGED <<ncalls, scHist, besideConverter>>

\* Close: sc.closed = true.
CloseSetsClosed(t) ==
    /\ At(t, "close")
    /\ sc' = [sc EXCEPT !.closed = TRUE]
    /\ scHist' = [scHist EXCEPT !.closedOnce = TRUE]
    /\ calls' = Goto(t, "pipes", "")
    /\ UNCHANGED <<ncalls, besideConverter>>

\* Close: the four pipes are closed; a Read left on one of them returns.
ClosePipes(t) ==
    /\ At(t, "pipes")
    /\ sc' = [sc EXCEPT !.pipes = "closed", !.readers = 0]
    /\ calls' = Goto(t, "kill", "")
    /\ UNCHANGED <<ncalls, scHist, besideConverter>>

\* Close: Process.Kill() and Wait() of both commands, return nil.
CloseKills(t) ==
    /\ At(t, "kill")
    /\ sc' = [sc EXCEPT !.processes = "killed"]
    /\ scHist' = [scHist EXCEPT !.kills = @ + 1]
    /\ calls' = Goto(t, "unlock", "nil")
    /\ UNCHANGED <<ncalls, besideConverter>>

\* USRPToFormat / FormatToUSRP: the Write to the input pipe of FFmpeg.
PipeWrite(t) ==
    /\ At(t, "write")
    /\ scHist' = [scHist EXCEPT !.touched = @ \/ sc.pipes = "closed"]
    /\ \E written \in BOOLEAN :
          calls' = IF written THEN Goto(t, "read", "")
                   ELSE Goto(t, "unlock", "failed to write data")
    /\ UNCHANGED <<sc, ncalls, besideConverter>>

\* USRPToFormat / FormatToUSRP: readWithTimeout on the output pipe.  Data
\* and io.EOF make the call return its result; after 100 ms the call
\* returns an error and the goroutine it started stays in the Read.
PipeRead(t) ==
    /\ At(t, "read")
    /\ scHist' = [scHist EXCEPT !.touched = @ \/ sc.pipes = "closed"]
    /\ \E outcome \in {"data", "EOF", "timeout", "error"} :
          /\ calls' = IF outcome \in {"data", "EOF"}
                      THEN Goto(t, "unlock", "nil")
                      ELSE Goto(t, "unlock", "failed to read data")
          /\ sc' = IF outcome = "timeout" THEN [sc EXCEPT !.readers = @ + 1] ELSE sc
    /\ UNCHANGED <<ncalls, besideConverter>>

\* The deferred sc.mutex.Unlock() and the return.
ConverterReturn(t) ==
    /\ At(t, "unlock")
    /\ sc' = [sc EXCEPT !.mutex = ""]
    /\ calls' = [calls EXCEPT ![t].pc = "idle"]
    /\ scHist' = [scHist EXCEPT !.closeReturned = @ \/ calls[t].op = "Close"]
    /\ UNCHANGED <<ncalls, besideConverter>>

InitConverter ==
    /\ RouterIdle
    /\ NoPacketInHand
    /\ NothingSent
    /\ NoTraffic
    /\ LibraryIdle

NextConverter ==
    \E t \in Callers :
        \/ ConverterCall(t)
        \/ ConverterLock(t)
        \/ CloseSetsClosed(t)
        \/ ClosePipes(t)
        \/ CloseKills(t)
        \/ PipeWrite(t)
        \/ PipeRead(t)
        \/ ConverterReturn(t)

SpecConverter == InitConverter /\ [][NextConverter]_vars

\* ------------------------------------------------ audio bridge specification
\* An AudioBridge over the converter: one goroutine calls Start and Stop,
\* every Start starts the two conversion workers, and frames arrive on
\* USRPIn and FormatIn at any time.

\* (*StreamingConverter).Close() as one step, for a caller that holds the
\* mutex of the converter for the whole call.
Close(s) ==
    IF s.closed THEN s
    ELSE [s EXCEPT !.closed = TRUE, !.pipes = "closed", !.processes = "killed",
                   !.readers = 0]

\* A step of the bridge leaves these alone.
besideBridge == <<routerVars, codecVars, egressVars, statVars, startVars, calls, ncalls,
                  botVars>>

\* (*AudioBridge).Start(): an error on a running bridge, else running is
\* set and the two workers are started.
BridgeStart ==
    /\ abCtl.pc = "idle"
    /\ IF ab.running
       THEN /\ abCtl' = [abCtl EXCEPT !.ret = "bridge already running"]
            /\ UNCHANGED <<ab, abWorkers>>
       ELSE /\ abCtl.starts < MaxStarts
            /\ ab' = [ab EXCEPT !.running = TRUE]
            /\ abWorkers' = [w \in BridgeWorkers |->
                                IF w[1] = abCtl.starts + 1 THEN "select"
                                ELSE abWorkers[w]]
            /\ abCtl' = [abCtl EXCEPT !.starts = @ + 1, !.ret = "nil"]
    /\ UNCHANGED <<sc, scHist, besideBridge>>

\* (*AudioBridge).Stop() up to its first send: nil on a bridge that is not
\* running, else running is cleared under the mutex.
BridgeStop ==
    /\ abCtl.pc = "idle"
    /\ IF ~ab.running
       THEN /\ abCtl' = [abCtl EXCEPT !.ret = "nil"]
            /\ UNCHANGED ab
       ELSE /\ ab' = [ab EXCEPT !.running = FALSE, !.mutex = "Stop"]
            /\ abCtl' = [abCtl EXCEPT !.pc = "send1", !.ret = ""]
    /\ UNCHANGED <<abWorkers, sc, scHist, besideBridge>>

\* ab.stopChan <- true, twice: a send waits while the buffer of one holds
\* a value.
BridgeStopSends ==
    /\ abCtl.pc \in {"send1", "send2"}
    /\ ab.stopChan = 0
    /\ ab' = [ab EXCEPT !.stopChan = 1]
    /\ abCtl' = [abCtl EXCEPT !.pc = IF abCtl.pc = "send1" THEN "send2" ELSE "close"]
    /\ UNCHANGED <<abWorkers, sc, scHist, besideBridge>>

\* return ab.converter.Close(), and the deferred unlock of the bridge.
BridgeStopCloses ==
    /\ abCtl.pc = "close"
    /\ sc.mutex = ""
    /\ sc' = Close(sc)
    /\ scHist' = [scHist EXCEPT !.closedOnce = TRUE, !.closeReturned = TRUE,
                                !.kills = IF sc.closed THEN @ ELSE @ + 1]
    /\ ab' = [ab EXCEPT !.mutex = ""]
    /\ abCtl' = [abCtl EXCEPT !.pc = "idle", !.stops = @ + 1, !.ret = "nil"]
    /\ UNCHANGED <<abWorkers, besideBridge>>

\* case <-ab.stopChan: return
WorkerStops(w) ==
    /\ abWorkers[w] = "select"
    /\ ab.stopChan = 1
    /\ ab' = [ab EXCEPT !.stopChan = 0]
    /\ abWorkers' = [abWorkers EXCEPT ![w] = "returned"]
    /\ UNCHANGED <<abCtl, sc, scHist, besideBridge>>

\* case voiceMsg := <-ab.USRPIn / case data := <-ab.FormatIn
WorkerTakes(w) ==
    /\ abWorkers[w] = "select"
    /\ abWorkers' = [abWorkers EXCEPT ![w] = "call"]
    /\ UNCHANGED <<ab, abCtl, sc, scHist, besideBridge>>

\* ab.converter.USRPToFormat / FormatToUSRP takes the mutex of the converter.
WorkerLocks(w) ==
    /\ abWorkers[w] = "call"
    /\ sc.mutex = ""
    /\ sc' = [sc EXCEPT !.mutex = "worker"]
    /\ abWorkers' = [abWorkers EXCEPT ![w] = "converting"]
    /\ UNCHANGED <<ab, abCtl, scHist, besideBridge>>

\* The conversion returns, a result or an error; the result is sent to the
\* output channel or dropped, and the worker is back at its select.
WorkerConverts(w) ==
    /\ abWorkers[w] = "converting"
    /\ sc' = [sc EXCEPT !.mutex = ""]
    /\ abWorkers' = [abWorkers EXCEPT ![w] = "select"]
    /\ UNCHANGED <<ab, abCtl, scHist, besideBridge>>

InitBridge ==
    /\ RouterIdle
    /\ NoPacketInHand
    /\ NothingSent
    /\ NoTraffic
    /\ LibraryIdle

NextBridge ==
    \/ BridgeStart
    \/ BridgeStop
    \/ BridgeStopSends
    \/ BridgeStopCloses
    \/ \E w \in BridgeWorkers :
          \/ WorkerStops(w)
          \/ WorkerTakes(w)
          \/ WorkerLocks(w)
          \/ WorkerConverts(w)

SpecBridge == InitBridge /\ [][NextBridge]_vars

\* The scheduling of the bridge.  A send on a channel with room and a
\* conversion that has the mutex complete.  A select whose stop case is
\* ready again and again takes it (Go chooses among the ready cases at
\* random), and a goroutine that waits for a mutex that is free again and
\* again gets it (sync.Mutex hands over to a starving waiter).  Nothing
\* makes the caller call Start or Stop, nor a frame arrive.
FairBridge ==
    /\ WF_vars(BridgeStopSends)
    /\ SF_vars(BridgeStopCloses)
    /\ \A w \in BridgeWorkers :
          /\ SF_vars(WorkerStops(w))
          /\ SF_vars(WorkerLocks(w))
          /\ WF_vars(WorkerConverts(w))

FairSpecBridge == SpecBridge /\ FairBridge

\* ------------------------------------------------- discord bot specification
\* A discord Bot: one goroutine calls Start, JoinVoiceChannel,
\* LeaveVoiceChannel and Stop, the owner of the context may cancel it, and
\* the goroutines Start and JoinVoiceChannel started run beside them.

\* A step of the bot leaves these alone.
besideBot == <<routerVars, codecVars, egressVars, statVars, startVars, convVars,
               bridgeVars>>

Processor(i) == <<"audioProcessor", i>>

Receiver(j) == <<"receiveAudio", j>>

\* (*Bot).Start(ctx): an error on a running bot or when the session does
\* not open, else running is set and audioProcessor(ctx) is started.
BotStart ==
    /\ botCtl.pc = "idle"
    /\ IF bot.running
       THEN /\ botCtl' = [botCtl EXCEPT !.ret = "bot is already running"]
            /\ UNCHANGED <<bot, botGo>>
       ELSE \E opened \in BOOLEAN :
               IF opened
               THEN /\ botCtl.starts < MaxStarts
                    /\ bot' = [bot EXCEPT !.running = TRUE, !.session = "open"]
                    /\ botGo' = [botGo EXCEPT ![Processor(botCtl.starts + 1)] =
                                    [at |-> "select", run |-> botCtl.starts + 1]]
                    /\ botCtl' = [botCtl EXCEPT !.starts = @ + 1, !.ret = "nil"]
               ELSE /\ botCtl' = [botCtl EXCEPT !.ret = "failed to open Discord session"]
                    /\ UNCHANGED <<bot, botGo>>
    /\ UNCHANGED <<botCtx, besideBot>>

\* (*Bot).JoinVoiceChannel(guildID, channelID): the voice connection there
\* is is dropped; the join fails, or the connection is set and not ready in
\* time, or it is ready and receiveAudio is started.  A join needs the open
\* session.
BotJoin ==
    /\ botCtl.pc = "idle"
    /\ botCtl.joins < MaxJoins
    /\ \E outcome \in {"failed", "not ready", "joined"} :
          /\ outcome # "failed" => bot.session = "open"
          /\ bot' = [bot EXCEPT !.voiceConn = (outcome # "failed")]
          /\ botGo' = IF outcome = "joined"
                      THEN [botGo EXCEPT ![Receiver(botCtl.joins + 1)] =
                               [at |-> "start", run |-> botCtl.starts]]
                      ELSE botGo
          /\ botCtl' = [botCtl EXCEPT !.joins = @ + 1,
                                      !.ret = IF outcome = "joined" THEN "nil" ELSE outcome]
    /\ UNCHANGED <<botCtx, besideBot>>

\* (*Bot).LeaveVoiceChannel()
BotLeave ==
    /\ botCtl.pc = "idle"
    /\ bot.voiceConn
    /\ bot' = [bot EXCEPT !.voiceConn = FALSE]
    /\ botCtl' = [botCtl EXCEPT !.ret = "nil"]
    /\ UNCHANGED <<botCtx, botGo, besideBot>>

\* (*Bot).Stop() up to its send: nil on a bot that is not running, else
\* running is cleared under the mutex.
BotStop ==
    /\ botCtl.pc = "idle"
    /\ IF ~bot.running
       THEN /\ botCtl' = [botCtl EXCEPT !.ret = "nil"]
            /\ UNCHANGED bot
       ELSE /\ bot' = [bot EXCEPT !.running = FALSE, !.mutex = "Stop"]
            /\ botCtl' = [botCtl EXCEPT !.pc = "send", !.ret = ""]
    /\ UNCHANGED <<botCtx, botGo, besideBot>>

\* b.stopChan <- true, once, and the rest of Stop: the voice connection is
\* dropped, the session closed, the mutex released.
BotStopSends ==
    /\ botCtl.pc = "send"
    /\ bot.stopChan = 0
    /\ bot' = [bot EXCEPT !.stopChan = 1, !.voiceConn = FALSE, !.session = "closed",
                          !.mutex = ""]
    /\ botCtl' = [botCtl EXCEPT !.pc = "idle", !.stops = @ + 1, !.ret = "nil"]
    /\ UNCHANGED <<botCtx, botGo, besideBot>>

\* The owner of the context cancels it.
BotCancel ==
    /\ ~botCtx
    /\ botCtx' = TRUE
    /\ UNCHANGED <<bot, botGo, botCtl, besideBot>>

\* receiveAudio: if b.voiceConn == nil { return }
ReceiverStarts(g) ==
    /\ g[1] = "receiveAudio"
    /\ botGo[g].at = "start"
    /\ botGo' = [botGo EXCEPT ![g].at = IF bot.voiceConn THEN "select" ELSE "returned"]
    /\ UNCHANGED <<bot, botCtx, botCtl, besideBot>>

\* case <-b.stopChan: return, of receiveAudio and of audioProcessor
GoroutineStops(g) ==
    /\ botGo[g].at = "select"
    /\ bot.stopChan = 1
    /\ bot' = [bot EXCEPT !.stopChan = 0]
    /\ botGo' = [botGo EXCEPT ![g].at = "returned"]
    /\ UNCHANGED <<botCtx, botCtl, besideBot>>

\* audioProcessor: case <-ctx.Done(): return
ProcessorDone(g) ==
    /\ g[1] = "audioProcessor"
    /\ botGo[g].at = "select"
    /\ botCtx
    /\ botGo' = [botGo EXCEPT ![g].at = "returned"]
    /\ UNCHANGED <<bot, botCtx, botCtl, besideBot>>

\* audioProcessor: case <-ticker.C with audio in AudioOut: b.IsConnected()
\* is called.
ProcessorTicks(g) ==
    /\ g[1] = "audioProcessor"
    /\ botGo[g].at = "select"
    /\ botGo' = [botGo EXCEPT ![g].at = "IsConnected"]
    /\ UNCHANGED <<bot, botCtx, botCtl, besideBot>>

\* b.IsConnected() takes and releases the mutex of the bot.
ProcessorChecks(g) ==
    /\ botGo[g].at = "IsConnected"
    /\ bot.mutex = ""
    /\ botGo' = [botGo EXCEPT ![g].at = "select"]
    /\ UNCHANGED <<bot, botCtx, botCtl, besideBot>>

InitBot ==
    /\ RouterIdle
    /\ NoPacketInHand
    /\ NothingSent
    /\ NoTraffic
    /\ LibraryIdle

NextBot ==
    \/ BotStart
    \/ BotJoin
    \/ BotLeave
    \/ BotStop
    \/ BotStopSends
    \/ BotCancel
    \/ \E g \in BotGoroutines :
          \/ ReceiverStarts(g)
          \/ GoroutineStops(g)
          \/ ProcessorDone(g)
          \/ ProcessorTicks(g)
          \/ ProcessorChecks(g)

SpecBot == InitBot /\ [][NextBot]_vars

\* The scheduling of the bot.  A started goroutine runs, a send on a
\* channel with room completes, a select whose stop or Done case is ready
\* again and again takes it, and a free mutex is acquired.  Nothing makes
\* the caller call a method, the owner cancel the context, or audio arrive.
FairBot ==
    /\ WF_vars(BotStopSends)
    /\ \A g \in BotGoroutines :
          /\ WF_vars(ReceiverStarts(g))
          /\ SF_vars(GoroutineStops(g))
          /\ SF_vars(ProcessorDone(g))
          /\ SF_vars(ProcessorChecks(g))

FairSpecBot == SpecBot /\ FairBot

\* ---------------------------------------------------------- properties
\* The step is a dispatch of the frame at the head of the hub channel.
Dispatching == stats'.TotalMessages = stats.TotalMessages + 1

\* The entries of `table` that are not older than tx_timeout_seconds.
Live(table) == {id \in DOMAIN table : table[id].Age <= config.TxTimeoutSeconds}

\* C1: the number of non-expired entries of the active-transmissions map is
\* at most max_concurrent_tx, except while an accepted preemption has the
\* table over the cap; with the priority rules disabled it never exceeds it.
C1_ConcurrencyCap ==
    LET n == Cardinality(Live(activeTransmissions)) IN
    /\ n > config.MaxConcurrentTx => config.EnablePriorityRules /\ transient
    /\ ~config.EnablePriorityRules => n <= config.MaxConcurrentTx

\* C1 witness: with the rules disabled the table is at the cap and the last
\* frame was refused.
C1_Witness ==
    /\ ~config.EnablePriorityRules
    /\ Cardinality(Live(activeTransmissions)) = config.MaxConcurrentTx
    /\ last.called /\ last.err

\* C2: a PTT-on frame that reaches a full table (max_concurrent_tx or more
\* non-expired entries) is admitted if and only if the priority rules are
\* enabled and its priority is strictly greater than some entry's.
C2_AdmissionWhenFull ==
    [][Dispatching =>
        LET msg == Head(audioHub)
            live == Live(activeTransmissions)
        IN (msg.PTTActive /\ Cardinality(live) >= config.MaxConcurrentTx) =>
              (~last'.err <=>
                  /\ config.EnablePriorityRules
                  /\ \E id \in live :
                        msg.Priority > activeTransmissions[id].Priority)]_vars

\* C2 witness: a frame was admitted by preemption and the table is over the cap.
C2_Witness ==
    /\ last.called /\ ~last.err /\ last.msg.PTTActive
    /\ transient
    /\ last.msg.SourceID \in DOMAIN activeTransmissions

\* C3: a further PTT-on frame from a source that has a (non-expired) entry
\* leaves the source in the map with the new frame as its entry.
C3_RefreshReplacesEntry ==
    [][Dispatching =>
        LET msg == Head(audioHub) IN
        (msg.PTTActive /\ msg.SourceID \in Live(activeTransmissions)) =>
            /\ msg.SourceID \in DOMAIN activeTransmissions'
            /\ activeTransmissions'[msg.SourceID] = msg]_vars

\* Scenario 5 up to its third dispatch: max_concurrent_tx = 2, priority rules
\* disabled, and of the first three frames dispatched the first two were
\* PTT-on frames of two sources, both still within the timeout, and the
\* third is a PTT-on frame of another source.
Scenario5Third ==
    /\ config.MaxConcurrentTx = 2
    /\ ~config.EnablePriorityRules
    /\ Dispatching
    /\ stats.TotalMessages = 2
    /\ Head(audioHub).PTTActive
    /\ Cardinality(Live(activeTransmissions) \ {Head(audioHub).SourceID}) = 2

\* Scenario 5 at its first or second dispatch.
Scenario5FirstTwo ==
    /\ config.MaxConcurrentTx = 2
    /\ ~config.EnablePriorityRules
    /\ Dispatching
    /\ stats.TotalMessages < 2
    /\ Head(audioHub).PTTActive
    /\ Head(audioHub).SourceID \notin DOMAIN activeTransmissions

\* C4 as stated: the first two frames are admitted and routed, the third is
\* dropped, and dropped_messages has increased by exactly 1.
C4_CapScenario ==
    [][/\ Scenario5FirstTwo =>
            /\ ~last'.err
            /\ stats'.RoutedMessages = stats.RoutedMessages + 1
       /\ Scenario5Third =>
            /\ last'.err
            /\ stats.RoutedMessages = 2
            /\ stats'.DroppedMessages = 1]_vars

\* C4 amended: the first two frames are admitted and stored, and each is
\* counted as routed if a destination accepts it and as dropped if it has
\* destinations and none accepts it; the third is refused, is delivered
\* nowhere, and adds exactly 1 to dropped_messages.
C4_CapScenarioAmended ==
    [][/\ Scenario5FirstTwo =>
            /\ ~last'.err
            /\ activeTransmissions'[Head(audioHub).SourceID] = Head(audioHub)
            /\ stats'.RoutedMessages =
                  stats.RoutedMessages + (IF last'.accepted # {} THEN 1 ELSE 0)
            /\ stats'.DroppedMessages =
                  stats.DroppedMessages
                     + (IF last'.dests # {} /\ last'.accepted = {} THEN 1 ELSE 0)
       /\ Scenario5Third =>
            /\ last'.err
            /\ last'.accepted = {}
            /\ stats'.RoutedMessages = stats.RoutedMessages
            /\ stats'.DroppedMessages = stats.DroppedMessages + 1
            /\ stats.RoutedMessages = 2 => stats'.DroppedMessages = 1]_vars

\* C4 witness: after the third dispatch of the scenario, with both admitted
\* frames routed and the third refused.
C4_Witness ==
    /\ config.MaxConcurrentTx = 2
    /\ ~config.EnablePriorityRules
    /\ stats.TotalMessages = 3
    /\ last.err /\ last.msg.PTTActive
    /\ Cardinality(Live(activeTransmissions) \ {last.msg.SourceID}) = 2
    /\ stats.RoutedMessages = 2
    /\ stats.DroppedMessages = 1

\* C5: a dispatch never removes the non-expired entry of a source other than
\* the frame's, nor the non-expired entry of the frame's source unless the
\* frame is PTT-off; no other step adds or removes an entry.
C5_NoEviction ==
    [][IF Dispatching
       THEN LET msg == Head(audioHub) IN
            \A t \in Live(activeTransmissions) :
                /\ (t # msg.SourceID \/ msg.PTTActive) =>
                      t \in DOMAIN activeTransmissions'
                /\ t # msg.SourceID =>
                      activeTransmissions'[t] = activeTransmissions[t]
       ELSE DOMAIN activeTransmissions' = DOMAIN activeTransmissions]_vars

\* C5 witness: after an admission by preemption the map holds more entries
\* than the cap.
C5_Witness ==
    /\ last.called /\ ~last.err
    /\ Cardinality(DOMAIN activeTransmissions) > config.MaxConcurrentTx

\* C6: after a PTT-off frame from s is processed, s has no entry.
C6_PTTOffRemoves ==
    (last.called /\ ~last.msg.PTTActive) =>
        last.msg.SourceID \notin DOMAIN activeTransmissions

\* C6 witness: a PTT-off frame was processed and the map still holds
\* max_concurrent_tx entries or more.
C6_Witness ==
    /\ last.called /\ ~last.msg.PTTActive
    /\ Cardinality(DOMAIN activeTransmissions) >= config.MaxConcurrentTx

\* C7 as stated: after every call the map holds no entry older than
\* tx_timeout_seconds.
C7_NoOldEntryAfterCall ==
    [][Dispatching =>
        \A id \in DOMAIN activeTransmissions' :
            activeTransmissions'[id].Age <= config.TxTimeoutSeconds]_vars

\* C7 amended: every call, whatever the PTT flag and the outcome, removes
\* every entry that was older than tx_timeout_seconds, so that after the call
\* the only entry that can be older is the one the call stored for its own
\* frame (whose timestamp is the frame's creation time).
C7_SweepOnEveryCall ==
    [][Dispatching =>
        LET msg == Head(audioHub) IN
        /\ \A id \in DOMAIN activeTransmissions \ Live(activeTransmissions) :
              \/ id \notin DOMAIN activeTransmissions'
              \/ /\ id = msg.SourceID /\ msg.PTTActive /\ ~last'.err
                 /\ activeTransmissions'[id] = msg
        /\ \A id \in DOMAIN activeTransmissions' \ Live(activeTransmissions') :
              /\ id = msg.SourceID /\ msg.PTTActive /\ ~last'.err
              /\ activeTransmissions'[id] = msg]_vars

\* C7 witness: the call of a refused frame has swept an entry: the map holds
\* fewer entries than the last admitted call left.
C7_Witness ==
    /\ last.called /\ last.err
    /\ Cardinality(DOMAIN activeTransmissions) < stats.ActiveTransmissions

\* C8: the destination set of a frame never contains the frame's source,
\* whatever prevent_loops is.
C8_NoSelfLoop == last.called => last.msg.SourceID \notin last.dests

\* C8 witness: a frame was routed to some destination with prevent_loops off.
C8_Witness == last.called /\ last.dests # {} /\ ~config.PreventLoops

\* C9: the destination set is disjoint from the frame's exclude_ids and from
\* the source's exclude_services.
C9_ExclusionsHonoured ==
    last.called =>
        /\ last.dests \cap last.msg.ExcludeIDs = {}
        /\ last.dests \cap config.Services[last.msg.SourceID].ExcludeServices = {}

\* C9 witness: a frame with exclude_ids, from a source with exclude_services,
\* has a destination.
C9_Witness ==
    /\ last.called /\ last.dests # {}
    /\ last.msg.ExcludeIDs # {}
    /\ config.Services[last.msg.SourceID].ExcludeServices # {}

\* C10: every destination of a frame satisfies the source's send_to_types and
\* its own receive_from, for every default_routing value.
C10_TypeFiltersHonoured ==
    last.called =>
        \A d \in last.dests :
            LET source == config.Services[last.msg.SourceID]
                dest == config.Services[d]
            IN /\ source.SendToTypes # {} => dest.Type \in source.SendToTypes
               /\ dest.ReceiveFrom # {} => source.Type \in dest.ReceiveFrom

\* C11: with default_routing = all-to-all, no type filters and no exclusions,
\* the destination set of an admitted frame is exactly the set of enabled,
\* can_receive services other than the source.
C11_AllToAllDestinations ==
    LET src == last.msg.SourceID IN
    (/\ last.called /\ ~last.err
     /\ config.DefaultRouting = "all-to-all"
     /\ config.Services[src].SendToTypes = {}
     /\ \A id \in ServiceIDs : config.Services[id].ReceiveFrom = {}
     /\ last.msg.RouteToTypes = {}
     /\ last.msg.ExcludeIDs = {}
     /\ config.Services[src].ExcludeServices = {})
    => last.dests = {id \in ServiceIDs \ {src} :
                        /\ config.Services[id].Enabled
                        /\ config.Services[id].CanReceive}

\* C11 witness: three enabled services that can all receive, no filter and no
\* exclusion, and a frame from the USRP service a went to b and c exactly.
C11_Witness ==
    /\ last.called /\ ~last.err
    /\ config.DefaultRouting = "all-to-all"
    /\ last.msg.SourceID = "a"
    /\ \A id \in ServiceIDs :
          /\ config.Services[id].Enabled /\ config.Services[id].CanReceive
          /\ config.Services[id].ReceiveFrom = {}
    /\ config.Services["a"].SendToTypes = {}
    /\ config.Services["a"].ExcludeServices = {}
    /\ last.msg.RouteToTypes = {} /\ last.msg.ExcludeIDs = {}
    /\ last.dests = {"b", "c"}

\* C12: frames of one source that both reach a destination d reach it in the
\* order in which they entered the hub channel.
C12_PerSourceFIFO ==
    \A d \in DOMAIN received :
        \A i, j \in 1..Len(received[d]) :
            (i < j /\ received[d][i][1] = received[d][j][1]) =>
                received[d][i][2] < received[d][j][2]

\* C12 witness: a destination has been sent two frames of one source while a
\* frame of another source entered the hub between them.
C12_Witness ==
    \E d \in DOMAIN received :
        \E i, j \in 1..Len(received[d]) :
            /\ i < j
            /\ received[d][i][1] = received[d][j][1]
            /\ received[d][j][2] > received[d][i][2] + 1

\* C13: the dispatch of a frame that the transmission table refuses adds
\* exactly one to dropped_messages, nothing to routed_messages, and sends the
\* frame to no destination.
C13_RefusedFrameDropped ==
    [][(Dispatching /\ last'.err) =>
          /\ stats'.DroppedMessages = stats.DroppedMessages + 1
          /\ stats'.RoutedMessages = stats.RoutedMessages
          /\ last'.dests = {} /\ last'.accepted = {}
          /\ received' = received]_vars

\* C13 witness: the last frame was refused, after a frame that was delivered.
C13_Witness ==
    /\ last.called /\ last.err
    /\ stats.RoutedMessages >= 1
    /\ stats.DroppedMessages = 1
    /\ \E d \in DOMAIN received : received[d] # <<>>

\* C14: the dispatch of a frame that the transmission table admits adds one
\* to exactly one of routed_messages and dropped_messages: to routed_messages
\* if a destination accepted the frame, to dropped_messages otherwise.
C14_AdmittedFrameCountedOnce ==
    [][(Dispatching /\ ~last'.err) =>
          IF last'.accepted # {}
          THEN /\ stats'.RoutedMessages = stats.RoutedMessages + 1
               /\ stats'.DroppedMessages = stats.DroppedMessages
          ELSE /\ stats'.RoutedMessages = stats.RoutedMessages
               /\ stats'.DroppedMessages = stats.DroppedMessages + 1]_vars

\* The step is the expiry of the 100 ms send deadline of goroutine g, blocked
\* on the full hub channel: its frame is given up.
HubSendTimedOut(g) ==
    /\ Blocked(g)
    /\ audioHub' = audioHub
    /\ \A j \in 1..Len(sendq') : sendq'[j].g # g

\* C15: when a worker gives its frame up because the hub channel stayed full
\* for the send deadline, the errors counter of its endpoint and the hub's
\* dropped_messages are each incremented.
C15_BackpressureCounted ==
    [][\A g \in ServiceIDs :
          HubSendTimedOut(g) =>
              /\ services'[g].Stats.Errors = services[g].Stats.Errors + 1
              /\ stats'.DroppedMessages = stats.DroppedMessages + 1]_vars

\* C16: a goroutine blocked in the hub send is released by the send deadline
\* before a second passes (its timer is pending and the clock cannot advance
\* while it is blocked), its frame is then in the channel or given up, and
\* after giving a frame up the worker is still running and not blocked: a
\* full hub channel neither blocks a network worker for good nor ends it.
C16_HubSendCompletes ==
    [][\A g \in Goroutines :
          /\ Blocked(g) =>
                /\ goroutines[g] = "running"
                /\ ENABLED hubSendTimeout(g)
                /\ ~ENABLED Tick
          /\ HubSendTimedOut(g) =>
                /\ goroutines'[g] = "running"
                /\ \A j \in 1..Len(sendq') : sendq'[j].g # g
                /\ UNCHANGED <<audioHub, activeTransmissions, stats>>]_vars

\* C16 witness: the worker of c is blocked in the hub send: the channel it
\* offers its frame to is full of frames of the two other services.
C16_Witness ==
    /\ Blocked("c")
    /\ goroutines["c"] = "running"
    /\ Len(audioHub) = config.BufferSize
    /\ {audioHub[i].SourceID : i \in 1..Len(audioHub)} = {"a", "b"}

\* C17: as long as the router has not been cancelled the dispatcher is alive,
\* whatever per-frame error (refusal, empty destination set, failed send) the
\* frames it processed met, and it can receive the next frame of the channel
\* as soon as it is back in its select.
C17_DispatcherSurvivesErrors ==
    (started /\ ~cancelled) =>
        /\ Alive("hub")
        /\ (goroutines["hub"] = "running" /\ audioHub # <<>>) =>
              ENABLED audioHubWorker

\* C17 witness: not cancelled, the second frame was delivered after the first
\* met an error (routed_messages counts one frame of the two).
C17_Witness ==
    /\ ~cancelled
    /\ stats.TotalMessages = 2
    /\ stats.RoutedMessages = 1
    /\ last.called /\ ~last.err /\ last.accepted # {}
    /\ goroutines["hub"] = "running"

\* C18: once the longest ingress deadline has passed since the cancellation
\* (no transcode call is in flight), every goroutine has returned.
C18_TerminationBound ==
    (cancelled /\ sinceCancel > TCPReadDeadlineSeconds) =>
        \A g \in Goroutines : ~Alive(g)

\* close(r.audioHub): the program never closes the hub channel.
audioHubClosed == FALSE

\* C19: when Stop has returned every worker has returned and the hub channel
\* is closed.
C19_StopWaitsForWorkers ==
    stopReturned =>
        /\ \A g \in Goroutines : ~Alive(g)
        /\ audioHubClosed

\* C20: the dispatcher is never blocked inside the egress of a destination.
C20_EgressNeverBlocks == goroutines["hub"] # "egress"

\* C23: when the send of a frame to one destination fails, only that
\* destination is skipped: every other destination of the frame is still
\* offered it, so a destination whose send cannot fail receives the frame
\* whatever happened to the others.
C23_FailureSkipsOnlyThatDestination ==
    last.called =>
        \A d \in last.dests :
            sendToService(last.msg, services[d].Instance) = {TRUE}
                => /\ d \in last.accepted
                   /\ received[d] # <<>>
                   /\ received[d][Len(received[d])]
                         = <<last.msg.SourceID, last.msg.Entry>>

C23_Witness ==
    /\ last.called
    /\ "b" \in last.dests \ last.accepted
    /\ "c" \in last.accepted
    /\ received["c"] = <<<<last.msg.SourceID, last.msg.Entry>>>>
    /\ received["b"] = <<>>

\* The digits {'0'..'9', 'A'..'D', '*', '#'}.
DTMFDigits == {48, 49, 50, 51, 52, 53, 54, 55, 56, 57, 65, 66, 67, 68, 42, 35}

\* A frame of its type: the magic, the type of the message in the header, a
\* DTMF digit of the allowed set, TLV items whose Length is the length of
\* their Value.
ValidFrame(m) ==
    /\ m.Header.Eye = USRPMagic
    /\ m.Header.Type = GetType(m)
    /\ m.Kind = "DTMFMessage" => m.Digit \in DTMFDigits
    /\ m.Kind = "TLVMessage" =>
          \A i \in 1..Len(m.TLVs) : m.TLVs[i].Length = Len(m.TLVs[i].Value)

\* The datagram in hand is the encoding of the message.
Encoded == buffer = Marshal(message)

\* The magic and the type field of a datagram of at least 32 bytes.
HasMagic(data) == Len(data) >= HeaderSize /\ SubSeq(data, 1, 4) = USRPMagic

TypeField(data) == Uint32(SubSeq(data, 21, 24))

\* C25: for each of the seven packet types and every valid frame f of the
\* type, decoding the encoding of f succeeds and reproduces f, header fields
\* and payload.
C25_RoundTrip ==
    (Encoded /\ ValidFrame(message) /\ parsed.by \in {message.Kind, "ReceiveMessage"})
        => (parsed.err = nil /\ parsed.msg = message)

\* C26: every Marshal, for any message value, returns at least 32 bytes of
\* which the first four are 'USRP'.
C26_EncoderMagic ==
    Encoded => (Len(buffer) >= HeaderSize /\ SubSeq(buffer, 1, 4) = USRPMagic)

\* C27: decoding a byte string of fewer than 32 bytes, or one whose first
\* four bytes are not 'USRP', returns an error, for every message type.
C27_MalformedHeaderRejected ==
    (parsed.by # "" /\ ~HasMagic(buffer)) => parsed.err # nil

C27_Witness ==
    /\ parsed.by = "PingMessage"
    /\ Len(buffer) = HeaderSize
    /\ SubSeq(buffer, 1, 4) = <<85, 83, 82, 81>>
    /\ parsed.err # nil

\* C28: decoding a frame whose type field is not one of the seven values
\* returns an error.
C28_UnknownTypeRejected ==
    (parsed.by # "" /\ HasMagic(buffer) /\ TypeField(buffer) \notin 0..6)
        => parsed.err # nil

\* C29: decoding a DTMF frame whose digit byte is not in
\* {'0'..'9', 'A'..'D', '*', '#'} returns an error.
C29_DecodeValidatesDigit ==
    (/\ parsed.by \in {"DTMFMessage", "ReceiveMessage", "parseUSRPPacket"}
     /\ HasMagic(buffer) /\ TypeField(buffer) = USRP_TYPE_DTMF
     /\ Len(buffer) > HeaderSize /\ buffer[HeaderSize + 1] \notin DTMFDigits)
        => parsed.err # nil

\* C30: Validate on a DTMF message whose header type is DTMF returns an
\* error exactly when the digit is outside {'0'..'9', 'A'..'D', '*', '#'}.
C30_ValidateDigit ==
    (/\ verdict # ""
     /\ message.Kind = "DTMFMessage"
     /\ message.Header.Type = USRP_TYPE_DTMF)
        => (verdict # nil <=> message.Digit \notin DTMFDigits)

C30_Witness ==
    /\ verdict = "invalid DTMF digit"
    /\ message.Kind = "DTMFMessage"
    /\ message.Header.Type = USRP_TYPE_DTMF
    /\ message.Digit = 69

\* The Seq field of a datagram.
SeqField(data) == Uint32(SubSeq(data, 5, 8))

\* C22: for each sender, the seq header values of the USRP frames it emits
\* are monotonic in emission order -- of two datagrams the router writes to
\* a USRP destination, the later never carries a smaller seq than the
\* earlier.
C22_SeqMonotonicPerSender ==
    \A d \in DOMAIN sent : \A i, j \in 1..Len(sent[d]) :
        i < j => SeqField(sent[d][i].data) <= SeqField(sent[d][j].data)

\* The samples of a VOICE datagram.
SamplesField(data) ==
    [i \in 1..VoiceFrameSize |->
        Int16(data[HeaderSize + 2 * i - 1], data[HeaderSize + 2 * i])]

\* The 160 samples the first 320 bytes of a payload hold, little-endian,
\* with zero for every sample the payload does not hold.
FirstSamples(data) ==
    [i \in 1..VoiceFrameSize |->
        IF 2 * i <= Len(data)
        THEN LET u == data[2 * i - 1] + 256 * data[2 * i]
             IN  IF u >= 32768 THEN u - 65536 ELSE u
        ELSE 0]

\* C24: the VOICE frame the USRP egress builds from a pcm payload carries
\* the 160 samples of the first 320 payload bytes read as little-endian
\* int16 -- the samples a shorter payload does not hold are zero, the bytes
\* after the first 320 are left out.
C24_SamplesFromPayload ==
    \A d \in DOMAIN sent : \A i \in 1..Len(sent[d]) :
        sent[d][i].msg.Format = "pcm" =>
            /\ Len(sent[d][i].data) = HeaderSize + 2 * VoiceFrameSize
            /\ SamplesField(sent[d][i].data) = FirstSamples(sent[d][i].msg.Data)

\* No goroutine is between the stores of a LastActivity value.
NoStoreInProgress == \A g \in StatWriters : pc[g] # "activity="

\* C21: every update of a statistics counter is atomic with respect to the
\* concurrent updates of the other goroutines -- the message and byte
\* counters of a connection hold exactly what its ingress worker and the hub
\* dispatcher have counted, and once the stores are done the last-activity
\* time is a time one of them read.
C21_StatsUpdatesAtomic ==
    /\ \A g \in StatWriters :
          /\ conn.Stats[MessagesField(g)] = counted[g].Messages
          /\ conn.Stats[BytesField(g)] = counted[g].Bytes
    /\ NoStoreInProgress =>
          \E t \in 0..clock : conn.Stats.LastActivity = Time(t)

\* The encoding of the message cut after its first k TLV items.
EncodedItems(k) == Marshal([message EXCEPT !.TLVs = SubSeq(@, 1, k)])

\* The datagram in hand is the encoding of the first k items of the message
\* followed by one or two more bytes.
ShortTrailer(k) ==
    /\ message.Kind = "TLVMessage"
    /\ ValidFrame(message)
    /\ k \in 0..Len(message.TLVs)
    /\ Len(buffer) - Len(EncodedItems(k)) \in {1, 2}
    /\ SubSeq(buffer, 1, Len(EncodedItems(k))) = EncodedItems(k)

\* C31: the TLV decoder is tolerant of trailing bytes shorter than the
\* 3-byte item header -- when one or two bytes remain after the last
\* complete item, the decoding succeeds with the items read so far.
C31_ShortTrailerTolerated ==
    \A k \in 0..MaxTLVs :
        (ShortTrailer(k) /\ parsed.by \in {"TLVMessage", "ReceiveMessage",
                                           "parseUSRPPacket"})
            => (parsed.err = nil /\ parsed.msg.TLVs = SubSeq(message.TLVs, 1, k))

C31_Witness ==
    /\ ShortTrailer(1)
    /\ Len(message.TLVs) = 1
    /\ parsed.by = "TLVMessage"
    /\ parsed.err = nil
    /\ parsed.msg.TLVs = message.TLVs

\* The items of the message are as AddTLV appends them.
BuiltWithAddTLV ==
    /\ message.Kind = "TLVMessage"
    /\ \A i \in 1..Len(message.TLVs) :
          <<message.TLVs[i]>> =
              AddTLV([TLVs |-> <<>>], message.TLVs[i].Tag, message.TLVs[i].Value).TLVs

\* C32: for any list of TLV items whose values fit in 2^16-1 bytes, empty
\* values included, the encoding decodes, and encoding what was decoded
\* gives the same bytes again.
C32_TLVEncodeDecodeEncode ==
    (/\ BuiltWithAddTLV
     /\ message.Header = NewHeader(USRP_TYPE_TLV, 0)
     /\ Encoded
     /\ parsed.by = "TLVMessage")
        => (parsed.err = nil /\ Marshal(parsed.msg) = buffer)

\* C34: after every call to the transmission table, whether the frame was
\* admitted or refused, the statistic active_transmissions is the number of
\* entries of the active-transmissions map.
C34_ActiveStatIsMapSize ==
    [][Dispatching =>
        stats'.ActiveTransmissions = Cardinality(DOMAIN activeTransmissions')]_vars

\* C35: with the priority rules enabled the number of non-expired entries
\* of the active-transmissions map never exceeds max_concurrent_tx + 1.
C35_PreemptionBounded ==
    config.EnablePriorityRules =>
        Cardinality(Live(activeTransmissions)) <= config.MaxConcurrentTx + 1

\* C36: a frame whose source has can_send = false is delivered to no
\* destination.
C36_MuteSourceNotDelivered ==
    (last.called /\ ~config.Services[last.msg.SourceID].CanSend) =>
        /\ last.accepted = {}
        /\ \A d \in DOMAIN received : received[d] = <<>>

\* C37: a frame the transmission table refuses creates no entry for its
\* source and leaves every non-expired entry of the map as it was.
C37_RefusedFrameLeavesTable ==
    [][(Dispatching /\ last'.err) =>
        LET msg == Head(audioHub) IN
        /\ msg.SourceID \in DOMAIN activeTransmissions' =>
              /\ msg.SourceID \in Live(activeTransmissions)
              /\ activeTransmissions'[msg.SourceID] # msg
        /\ \A id \in Live(activeTransmissions) :
              /\ id \in DOMAIN activeTransmissions'
              /\ activeTransmissions'[id] = activeTransmissions[id]]_vars

\* C37 witness: a frame of a source without entry was refused and the map
\* holds the entries of other sources.
C37_Witness ==
    /\ last.called /\ last.err
    /\ last.msg.SourceID \notin DOMAIN activeTransmissions
    /\ Live(activeTransmissions) # {}

\* C40: UDPConnection.Start keeps running across read timeouts: it returns
\* only when its context is cancelled or when an error other than the
\* timeout of the read deadline occurred.
C40_StartSurvivesTimeouts ==
    startPc = "returned" =>
        \/ ctxDone /\ startErr.text = "context canceled"
        \/ ~IsTimeout(readErr)

\* A call of caller t has returned.
Returned(t) == calls[t].op # "" /\ calls[t].pc = "idle"

\* C33: once Close has been called on a StreamingConverter it stays closed:
\* a further Close returns nil and kills nothing again, and every
\* USRPToFormat or FormatToUSRP called after a Close returned gets the error
\* "converter is closed"; no call, concurrent with Close or not, reads or
\* writes a pipe that Close has closed.
C33_ClosedForGood ==
    /\ scHist.closedOnce => sc.closed
    /\ scHist.kills <= 1
    /\ ~scHist.touched
    /\ \A t \in Callers :
          Returned(t) =>
              /\ calls[t].op = "Close" => calls[t].ret = "nil"
              /\ calls[t].op # "Close" /\ calls[t].after =>
                    calls[t].ret = "converter is closed"

\* A second Close and a conversion, both called after a Close returned, have
\* returned.
C33_Witness ==
    /\ Returned("t1") /\ calls["t1"].op = "Close" /\ calls["t1"].after
    /\ Returned("t2") /\ calls["t2"].op = "USRPToFormat" /\ calls["t2"].after
    /\ scHist.kills = 1

\* A Stop that has cleared running returns.
StopReturns == (abCtl.pc # "idle") ~> (abCtl.pc = "idle")

\* Once the Stop of a run has returned, each worker of that run terminates.
StoppedWorkersEnd ==
    \A w \in BridgeWorkers :
        (abCtl.stops >= w[1]) ~> (abWorkers[w] = "returned")

\* C38: AudioBridge.Stop called on a running bridge always returns, and
\* after it has returned each of the two conversion workers of the run it
\* stopped has terminated or eventually terminates.
C38_StopReturnsWorkersEnd == StopReturns /\ StoppedWorkersEnd

\* Once the Stop of a run has returned, each goroutine started in that run
\* terminates.
StoppedGoroutinesEnd ==
    \A g \in BotGoroutines :
        (botGo[g].at # "none" /\ botCtl.stops >= botGo[g].run) ~>
            (botGo[g].at = "returned")

\* A Stop that has cleared running gets past its send on the stop channel.
BotStopReturns == (botCtl.pc = "send") ~> (botCtl.pc = "idle")

\* C39: after Bot.Stop has returned, every goroutine the bot started (the
\* audioProcessor of Start, the receiveAudio of each JoinVoiceChannel)
\* eventually terminates, and the Stop of a later Start/Stop cycle does not
\* block on the stop channel.
C39_StopEndsGoroutines == StoppedGoroutinesEnd /\ BotStopReturns

====
